---- MODULE Spec2Model ----
(***************************************************************************)
(* Model of the calculator store (history, variables, input box, recall    *)
(* cursor), of its input classifier, reference resolver and evaluator, and *)
(* of the viewport of the graph panel (zoom level, pan offset, drag).      *)
(*                                                                         *)
(* A JavaScript string is modelled as a sequence of one-character strings: *)
(* "a=3" is <<"a", "=", "3">>.  The one-code-unit arrow U+2192 of the      *)
(* trace separator is the sequence element ArrowChar.                      *)
(***************************************************************************)
EXTENDS Integers, Sequences, FiniteSets, TLC

VARIABLES input, history, historyIndex, variables, lsHistory, lsVariables,
          now, lastOp, mounted, assignedIds, recallRun, rawText,
          zoomLevel, panOffset, isDragging, dragStart, viewReset,
          hoverPoint, samples, path, dragFrom

vars == <<input, history, historyIndex, variables, lsHistory, lsVariables,
          now, lastOp, mounted, assignedIds, recallRun, rawText,
          zoomLevel, panOffset, isDragging, dragStart, viewReset,
          hoverPoint, samples, path, dragFrom>>

(***************************************************************************)
(* Characters                                                              *)
(***************************************************************************)
LowerSeq == <<"a","b","c","d","e","f","g","h","i","j","k","l","m",
              "n","o","p","q","r","s","t","u","v","w","x","y","z">>
UpperSeq == <<"A","B","C","D","E","F","G","H","I","J","K","L","M",
              "N","O","P","Q","R","S","T","U","V","W","X","Y","Z">>
DigitSeq == <<"0","1","2","3","4","5","6","7","8","9">>

Range(f) == {f[i] : i \in DOMAIN f}

LowerLetters == Range(LowerSeq)
UpperLetters == Range(UpperSeq)
Digits == Range(DigitSeq)
ArrowChar == "->"

IsSpace(c) == c = " "
IsLetter(c) == c \in LowerLetters \cup UpperLetters
IsDigit(c) == c \in Digits
\* \w of a JavaScript regular expression
IsWordChar(c) == IsLetter(c) \/ IsDigit(c) \/ c = "_"

IndexIn(c, seq) == CHOOSE i \in DOMAIN seq : seq[i] = c
DigitVal(c) == IndexIn(c, DigitSeq) - 1
LowerOf(c) == IF c \in UpperLetters THEN LowerSeq[IndexIn(c, UpperSeq)] ELSE c

(***************************************************************************)
(* String.prototype helpers                                                *)
(***************************************************************************)
toLowerCase(s) == [i \in 1..Len(s) |-> LowerOf(s[i])]

RECURSIVE trimStart(_)
trimStart(s) == IF s # <<>> /\ IsSpace(Head(s)) THEN trimStart(Tail(s)) ELSE s

RECURSIVE trimEnd(_)
trimEnd(s) == IF s # <<>> /\ IsSpace(s[Len(s)])
              THEN trimEnd(SubSeq(s, 1, Len(s) - 1)) ELSE s

trim(s) == trimEnd(trimStart(s))

StartsAt(s, sub, i) == /\ i >= 1
                       /\ i + Len(sub) - 1 <= Len(s)
                       /\ SubSeq(s, i, i + Len(sub) - 1) = sub

includes(s, sub) == \E i \in 1..(Len(s) + 1) : StartsAt(s, sub, i)

\* String.prototype.indexOf, 1-based; 0 when sub does not occur
indexOf(s, sub) == IF includes(s, sub)
                   THEN CHOOSE i \in 1..(Len(s) + 1) :
                          /\ StartsAt(s, sub, i)
                          /\ \A j \in 1..(i - 1) : ~StartsAt(s, sub, j)
                   ELSE 0

\* \b at the gap before position i (1 <= i <= Len(s) + 1)
WordBoundary(s, i) ==
  LET before == i > 1 /\ IsWordChar(s[i - 1])
      after  == i <= Len(s) /\ IsWordChar(s[i])
  IN before # after

\* variant: \bsub, without the boundary after it
WordOpensAt(s, sub, i) == StartsAt(s, sub, i) /\ WordBoundary(s, i)

\* sub occurs at i as a whole word: \bsub\b
WordAt(s, sub, i) == /\ StartsAt(s, sub, i)
                     /\ WordBoundary(s, i)
                     /\ WordBoundary(s, i + Len(sub))

\* s.replace(/\bword\b/g, by) from position i on: left to right, non-overlapping,
\* word boundaries judged on the original string
RECURSIVE replaceWordFrom(_, _, _, _)
replaceWordFrom(s, word, by, i) ==
  IF i > Len(s) THEN <<>>
  ELSE IF WordAt(s, word, i)
       THEN by \o replaceWordFrom(s, word, by, i + Len(word))
       ELSE <<s[i]>> \o replaceWordFrom(s, word, by, i + 1)

replaceWord(s, word, by) == replaceWordFrom(s, word, by, 1)

\* String(n) for an integer n
RECURSIVE NatToStr(_)
NatToStr(n) == IF n < 10 THEN <<DigitSeq[n + 1]>>
               ELSE NatToStr(n \div 10) \o <<DigitSeq[(n % 10) + 1]>>

IntToStr(n) == IF n < 0 THEN <<"-">> \o NatToStr(-n) ELSE NatToStr(n)

(***************************************************************************)
(* Expression evaluator: mathjs evaluate(), on the part of its language    *)
(* the inputs of this model use.  A value is a record [t, v, s]:           *)
(*   num    an integer v                                                   *)
(*   real   a finite non-integer whose String() is s                       *)
(*   pinf, ninf, nan   the non-finite numbers                              *)
(*   nonnum a result that is no number (function, complex, boolean, unit)  *)
(*   throw  evaluate() threw (syntax error, undefined symbol, wrong type)  *)
(*   unsup  a finite number this model does not compute                    *)
(***************************************************************************)
Val(t, v, s) == [t |-> t, v |-> v, s |-> s]
Num(n) == Val("num", n, <<>>)
Real(s) == Val("real", 0, s)
PInf == Val("pinf", 0, <<>>)
NInf == Val("ninf", 0, <<>>)
NaN == Val("nan", 0, <<>>)
NonNum == Val("nonnum", 0, <<>>)
Throw == Val("throw", 0, <<>>)
Unsup == Val("unsup", 0, <<>>)

\* typeof value === 'number' && isFinite(value)
\* variant: typeof value === 'number' alone, without isFinite
IsNumberType(val) == val.t \in {"num", "real", "unsup", "pinf", "ninf", "nan"}

IsFiniteNumber(val) == val.t \in {"num", "real", "unsup"}

\* String(value) of a finite number
NumToString(val) == IF val.t = "num" THEN IntToStr(val.v) ELSE val.s

FunctionNames == {<<"s","i","n">>, <<"c","o","s">>, <<"t","a","n">>,
                  <<"l","o","g">>, <<"s","q","r","t">>, <<"a","b","s">>}

EulerStr == <<"2",".","7","1","8","2","8","1","8","2","8","4","5","9","0","4","5">>
PiStr == <<"3",".","1","4","1","5","9","2","6","5","3","5","8","9","7","9","3">>
Sin30Str == <<"-","0",".","9","8","8","0","3","1","6","2","4","0","9","2","8","6","1","8">>

\* A symbol that is not called: a built-in function, a constant, or undefined
SymbolValue(name) ==
  IF name \in FunctionNames THEN NonNum
  ELSE IF name = <<"e">> THEN Real(EulerStr)
  ELSE IF name = <<"p","i">> THEN Real(PiStr)
  ELSE IF name = <<"i">> THEN NonNum
  ELSE Throw

Sqrt(n) == IF \E k \in 0..n : k * k = n
           THEN Num(CHOOSE k \in 0..n : k * k = n) ELSE Unsup

\* name(arg)
CallValue(name, arg) ==
  IF arg.t = "throw" \/ name \notin FunctionNames THEN Throw
  ELSE IF arg.t = "nonnum" THEN Throw
  ELSE IF arg.t # "num" THEN Unsup
  ELSE IF name = <<"s","i","n">>
       THEN (IF arg.v = 0 THEN Num(0)
             ELSE IF arg.v = 30 THEN Real(Sin30Str) ELSE Unsup)
  ELSE IF name = <<"c","o","s">> THEN (IF arg.v = 0 THEN Num(1) ELSE Unsup)
  ELSE IF name = <<"t","a","n">> THEN (IF arg.v = 0 THEN Num(0) ELSE Unsup)
  ELSE IF name = <<"l","o","g">>
       THEN (IF arg.v = 1 THEN Num(0)
             ELSE IF arg.v = 0 THEN NInf
             ELSE IF arg.v < 0 THEN NonNum ELSE Unsup)
  ELSE IF name = <<"s","q","r","t">>
       THEN (IF arg.v < 0 THEN NonNum ELSE Sqrt(arg.v))
  ELSE Num(IF arg.v < 0 THEN -arg.v ELSE arg.v)

Negate(a) ==
  IF a.t = "num" THEN Num(-a.v)
  ELSE IF a.t = "real"
       THEN (IF Head(a.s) = "-" THEN Real(Tail(a.s)) ELSE Real(<<"-">> \o a.s))
  ELSE IF a.t = "pinf" THEN NInf
  ELSE IF a.t = "ninf" THEN PInf
  ELSE IF a.t = "nonnum" THEN Throw
  ELSE a

RECURSIVE IntPow(_, _)
IntPow(a, b) == IF b = 0 THEN 1 ELSE a * IntPow(a, b - 1)

\* a op b on numbers
BinOp(op, a, b) ==
  IF a.t = "throw" \/ b.t = "throw" THEN Throw
  ELSE IF a.t = "nonnum" \/ b.t = "nonnum" THEN Throw
  \* a finite number over an infinity is 0; any other sum, difference, product
  \* or quotient with an operand that is not finite is not finite (which of
  \* Infinity, -Infinity and NaN is not told apart)
  ELSE IF op = "/" /\ IsFiniteNumber(a) /\ b.t \in {"pinf", "ninf"} THEN Num(0)
  ELSE IF op # "^" /\ ~(IsFiniteNumber(a) /\ IsFiniteNumber(b)) THEN NaN
  ELSE IF a.t # "num" \/ b.t # "num" THEN Unsup
  ELSE IF op = "+" THEN Num(a.v + b.v)
  ELSE IF op = "-" THEN Num(a.v - b.v)
  ELSE IF op = "*" THEN Num(a.v * b.v)
  ELSE IF op = "/"
       THEN (IF b.v = 0
             THEN (IF a.v = 0 THEN NaN ELSE IF a.v > 0 THEN PInf ELSE NInf)
             ELSE IF a.v % b.v = 0 THEN Num(a.v \div b.v) ELSE Unsup)
  ELSE \* "^"
       IF b.v >= 0 THEN Num(IntPow(a.v, b.v))
       ELSE IF a.v = 1 THEN Num(1)
       ELSE IF a.v = 0 THEN PInf ELSE Unsup

\* parseFloat of a decimal literal drops the trailing zeros of the fraction
RECURSIVE StripZeros(_)
StripZeros(d) == IF d # <<>> /\ d[Len(d)] = "0"
                 THEN StripZeros(SubSeq(d, 1, Len(d) - 1)) ELSE d

RECURSIVE DigitsToNat(_)
DigitsToNat(d) == IF d = <<>> THEN 0
                  ELSE 10 * DigitsToNat(SubSeq(d, 1, Len(d) - 1)) + DigitVal(d[Len(d)])

AllDigits(d) == d # <<>> /\ \A k \in 1..Len(d) : IsDigit(d[k])

\* nesting depth of the parentheses opened before position i
Depth(s, i) == Cardinality({k \in 1..(i - 1) : s[k] = "("})
               - Cardinality({k \in 1..(i - 1) : s[k] = ")"})

Balanced(s) == /\ \A i \in 1..Len(s) : Depth(s, i + 1) >= 0
               /\ Depth(s, Len(s) + 1) = 0

MinOfSet(S) == CHOOSE m \in S : \A k \in S : m <= k
MaxOfSet(S) == CHOOSE m \in S : \A k \in S : k <= m

\* position of the last non-blank character before i, or 0
PrevNonSpace(s, i) ==
  LET P == {k \in 1..(i - 1) : ~IsSpace(s[k])}
  IN IF P = {} THEN 0 ELSE MaxOfSet(P)

\* a character that can end an operand
OperandEnd(c) == IsWordChar(c) \/ c = ")" \/ c = "."

\* start of the run of word characters that holds position i
WordStart(s, i) ==
  CHOOSE k \in 1..i : /\ \A j \in k..i : IsWordChar(s[j])
                      /\ k = 1 \/ ~IsWordChar(s[k - 1])

\* position i starts a symbol token: a letter at the start of a word, or the first
\* letter after the digits of a number
StartsSymbol(s, i) ==
  /\ IsLetter(s[i]) \/ s[i] = "_"
  /\ LET w == WordStart(s, i)
     IN w = i \/ (IsDigit(s[w]) /\ \A j \in w..(i - 1) : IsDigit(s[j]))

\* the token that ends at p is a number or a closing parenthesis
EndsNumberOrParen(s, p) ==
  \/ s[p] = ")"
  \/ IsWordChar(s[p]) /\ IsDigit(s[WordStart(s, p)])
        /\ \A j \in WordStart(s, p)..p : IsDigit(s[j])

\* a binary + or - at nesting depth 0 (a sign after an operator is unary)
AdditiveAt(s, i) ==
  /\ s[i] \in {"+", "-"}
  /\ Depth(s, i) = 0
  /\ LET p == PrevNonSpace(s, i) IN p # 0 /\ OperandEnd(s[p])

MultiplicativeAt(s, i) == s[i] \in {"*", "/"} /\ Depth(s, i) = 0

\* the token that ends at p is a symbol or a closing parenthesis
EndsSymbolOrParen(s, p) ==
  \/ s[p] = ")"
  \/ IsWordChar(s[p]) /\ ~IsDigit(s[WordStart(s, p)])

\* implicit multiplication: "(" after a number or ")", a symbol after an operand,
\* or a number after a symbol or ")"
ImplicitAt(s, i) ==
  /\ Depth(s, i) = 0
  /\ LET p == PrevNonSpace(s, i)
     IN /\ p # 0
        /\ \/ s[i] = "(" /\ EndsNumberOrParen(s, p)
           \/ StartsSymbol(s, i) /\ OperandEnd(s[p])
           \/ IsDigit(s[i]) /\ WordStart(s, i) = i /\ EndsSymbolOrParen(s, p)

PowerAt(s, i) == s[i] = "^" /\ Depth(s, i) = 0

Positions(s, At(_, _)) == {i \in 1..Len(s) : At(s, i)}

\* the "(" at k is closed by the last character of s
ClosedByLast(s, k) ==
  /\ s[k] = "(" /\ s[Len(s)] = ")" /\ k < Len(s)
  /\ \A j \in (k + 1)..Len(s) : Depth(s, j) >= Depth(s, k) + 1

IsSymbolText(s) == /\ s # <<>>
                   /\ IsLetter(s[1]) \/ s[1] = "_"
                   /\ \A k \in 1..Len(s) : IsWordChar(s[k])

\* The value of an expression text, by mathjs's precedence, lowest first:
\* + -, then * /, then implicit multiplication, then unary - +, then ^ (right
\* associative), then number, symbol, call and parenthesized group.
RECURSIVE Eval(_)

Split(s, op, i) == BinOp(op, Eval(SubSeq(s, 1, i - 1)), Eval(SubSeq(s, i + 1, Len(s))))

Decimal(whole, frac) ==
  IF frac = <<>> THEN Num(whole) ELSE Real(NatToStr(whole) \o <<".">> \o frac)

\* number, symbol, parenthesized group, call
Primary(s, dot, open) ==
  IF AllDigits(s) THEN Num(DigitsToNat(s))
  ELSE IF dot # 0 /\ AllDigits(SubSeq(s, 1, dot - 1)) /\ AllDigits(SubSeq(s, dot + 1, Len(s)))
  THEN Decimal(DigitsToNat(SubSeq(s, 1, dot - 1)), StripZeros(SubSeq(s, dot + 1, Len(s))))
  ELSE IF IsSymbolText(s) THEN SymbolValue(s)
  ELSE IF open = 1 /\ ClosedByLast(s, 1) THEN Eval(SubSeq(s, 2, Len(s) - 1))
  ELSE IF open > 1 /\ ClosedByLast(s, open) /\ IsSymbolText(trim(SubSeq(s, 1, open - 1)))
  THEN CallValue(trim(SubSeq(s, 1, open - 1)), Eval(SubSeq(s, open + 1, Len(s) - 1)))
  ELSE Throw

UnaryPlus(a) == IF a.t = "nonnum" THEN Throw ELSE a

EvalTrimmed(s, adds, muls, imps, pows) ==
  IF s = <<>> \/ ~Balanced(s) THEN Throw
  ELSE IF adds # {} THEN Split(s, s[MaxOfSet(adds)], MaxOfSet(adds))
  ELSE IF muls # {} THEN Split(s, s[MaxOfSet(muls)], MaxOfSet(muls))
  ELSE IF imps # {}
  THEN BinOp("*", Eval(SubSeq(s, 1, MaxOfSet(imps) - 1)),
                  Eval(SubSeq(s, MaxOfSet(imps), Len(s))))
  ELSE IF s[1] = "-" THEN Negate(Eval(Tail(s)))
  ELSE IF s[1] = "+" THEN UnaryPlus(Eval(Tail(s)))
  ELSE IF pows # {} THEN Split(s, "^", MinOfSet(pows))
  ELSE Primary(s, indexOf(s, <<".">>), indexOf(s, <<"(">>))

EvalText(s) ==
  EvalTrimmed(s, Positions(s, AdditiveAt), Positions(s, MultiplicativeAt),
              Positions(s, ImplicitAt), Positions(s, PowerAt))

Eval(s0) == EvalText(trim(s0))

\* evaluate(expr): "name = expr" is an assignment in a scratch scope and yields the
\* value of expr; "l == r" yields a boolean
RECURSIVE evaluate(_)

Comparison(l, r) == IF l.t = "throw" \/ r.t = "throw" THEN Throw ELSE NonNum

evaluateAt(s, eq) ==
  IF eq = 0 THEN Eval(s)
  ELSE IF eq < Len(s) /\ s[eq + 1] = "="
  THEN Comparison(evaluate(SubSeq(s, 1, eq - 1)), evaluate(SubSeq(s, eq + 2, Len(s))))
  ELSE IF IsSymbolText(trim(SubSeq(s, 1, eq - 1)))
  THEN evaluate(SubSeq(s, eq + 1, Len(s)))
  ELSE Throw

evaluate(s) == evaluateAt(s, indexOf(s, <<"=">>))

RECURSIVE SkipWs(_, _)
SkipWs(s, i) == IF i <= Len(s) /\ IsSpace(s[i]) THEN SkipWs(s, i + 1) ELSE i

(***************************************************************************)
(* Store data                                                              *)
(***************************************************************************)
HistoryCap == 100
NoIndex == -1
\* A persisted entry without an id field reads as a falsy id
NoId == 0

ERR == <<"E","R","R">>
GRAPH == <<"G","R","A","P","H">>
Separator == <<" ", ArrowChar, " ">>

Entry(id, expression, result, timestamp) ==
  [id |-> id, expression |-> expression, result |-> result, timestamp |-> timestamp]

Min(a, b) == IF a < b THEN a ELSE b

Ids(h) == {h[i].id : i \in DOMAIN h}

\* variant: the id of the last element instead of the largest id
maxIdOfLast(h) == IF Len(h) > 0 THEN h[Len(h)].id ELSE 0

\* variant: the guard history.length > 1
maxIdFromSecond(h) == IF Len(h) > 1 THEN MaxOfSet(Ids(h)) ELSE 0

\* history.length > 0 ? Math.max(...history.map(h => h.id)) : 0
maxId(h) == IF Len(h) > 0 THEN MaxOfSet(Ids(h)) ELSE 0

\* [entry, ...history].slice(0, 100)
\* variant: the new entry takes the place of the newest one
pushEntryOverNewest(entry, h) ==
  IF h = <<>> THEN <<entry>> ELSE <<entry>> \o Tail(h)

pushEntry(entry, h) ==
  LET all == <<entry>> \o h IN SubSeq(all, 1, Min(Len(all), HistoryCap))

EmptyVars == [n \in {} |-> Num(0)]

\* { ...variables, [name]: value }
setVariable(vs, name, value) ==
  [n \in (DOMAIN vs) \cup {name} |-> IF n = name THEN value ELSE vs[n]]

(***************************************************************************)
(* Reference resolver                                                      *)
(***************************************************************************)
\* result.replace(/\bln\s*\(/g, 'log(')
RECURSIVE replaceLnFrom(_, _)
replaceLnFrom(s, i) ==
  IF i > Len(s) THEN <<>>
  ELSE LET k == SkipWs(s, i + 2)
       IN IF StartsAt(s, <<"l","n">>, i) /\ WordBoundary(s, i)
             /\ k <= Len(s) /\ s[k] = "("
          THEN <<"l","o","g","(">> \o replaceLnFrom(s, k + 1)
          ELSE <<s[i]>> \o replaceLnFrom(s, i + 1)

\* the variable names in the order the substitution loop visits them
VarNames(vs) == SelectSeq(LowerSeq, LAMBDA c : c \in DOMAIN vs)

\* variant: the substitution loop left out
replaceVarsSkipped(s, vs, names) == s

RECURSIVE replaceVars(_, _, _)
replaceVars(s, vs, names) ==
  IF names = <<>> THEN s
  ELSE replaceVars(replaceWord(s, <<Head(names)>>, NumToString(vs[Head(names)])),
                   vs, Tail(names))

\* history.reduce((latest, entry) => entry.id > latest.id ? entry : latest):
\* the first entry, in array order, that holds the largest id
mostRecentEntry(h) == h[MinOfSet({i \in 1..Len(h) : h[i].id = MaxOfSet(Ids(h))})]

AnsWord == <<"a","n","s">>

\* for (const entry of history) result = result.replace(/\bans<id>\b/g, entry.result),
\* for the entries lo..hi in array order.  The loop is split in halves, and the first
\* half is computed before the second starts, to keep the evaluation shallow.
RECURSIVE replaceAnsIds(_, _, _, _)

replaceAnsRest(done, h, lo, hi) ==
  IF Len(done) >= 0 THEN replaceAnsIds(done, h, lo, hi) ELSE done

replaceAnsIds(s, h, lo, hi) ==
  IF lo > hi THEN s
  ELSE IF lo = hi THEN replaceWord(s, AnsWord \o IntToStr(h[lo].id), h[lo].result)
  ELSE replaceAnsRest(replaceAnsIds(s, h, lo, (lo + hi) \div 2), h,
                      (lo + hi) \div 2 + 1, hi)

resolveAnswers(s, h) ==
  IF Len(h) > 0
  THEN replaceAnsIds(replaceWord(s, AnsWord, mostRecentEntry(h).result), h, 1, Len(h))
  ELSE s

replaceVariablesAndAnswers(expr, h, vs) ==
  resolveAnswers(replaceVars(replaceLnFrom(expr, 1), vs, VarNames(vs)), h)

(***************************************************************************)
(* Input classifier                                                        *)
(***************************************************************************)
\* variant: the character class [a-z]
AnyLetter(c) == LowerOf(c) \in LowerLetters

\* the character class [a-wz] under the i flag
AssignableLetter(c) == LowerOf(c) \in LowerLetters \ {"x", "y"}

Assignment(isAssignment, error, varName, value) ==
  [isAssignment |-> isAssignment, error |-> error, varName |-> varName, value |-> value]

\* the outcome for a text that matched: empty value, value that evaluates, or error
assignmentOf(varName, valueExpr, value) ==
  IF valueExpr = <<>> THEN Assignment(TRUE, TRUE, varName, Throw)
  ELSE IF IsFiniteNumber(value) THEN Assignment(TRUE, FALSE, varName, value)
  ELSE Assignment(TRUE, TRUE, varName, Throw)

\* match[2].trim(), for a trimmed text whose "=" is at j
valueExprOf(t, j) == trim(SubSeq(t, SkipWs(t, j + 1), Len(t)))

\* t.match(/^([a-wz])[\s]*=[\s]*(.*)$/i) on the trimmed text, "=" expected at j
matchAssignment(t, j, h, vs) ==
  IF Len(t) >= 1 /\ AssignableLetter(t[1]) /\ j <= Len(t) /\ t[j] = "="
  THEN assignmentOf(LowerOf(t[1]), valueExprOf(t, j),
                    evaluate(replaceVariablesAndAnswers(valueExprOf(t, j), h, vs)))
  ELSE Assignment(FALSE, FALSE, "", Throw)

isVariableAssignment(expr, h, vs) == matchAssignment(trim(expr), SkipWs(trim(expr), 2), h, vs)

hasTrigName(lower) == \/ includes(lower, <<"s","i","n">>)
                      \/ includes(lower, <<"c","o","s">>)
                      \/ includes(lower, <<"t","a","n">>)

\* lower.match(/\b[xy]\b/) !== null
hasStandaloneXY(lower) ==
  \E i \in 1..Len(lower) : WordAt(lower, <<"x">>, i) \/ WordAt(lower, <<"y">>, i)

graphLower(lower) ==
  IF includes(lower, <<"y","=">>) \/ includes(lower, <<"y"," ","=">>) THEN TRUE
  ELSE IF hasStandaloneXY(lower) THEN TRUE
  ELSE IF hasTrigName(lower)
       THEN includes(lower, <<"x">>) \/ includes(lower, <<"y">>)
       ELSE FALSE

isGraphEquation(expr) == graphLower(trim(toLowerCase(expr)))

\* variant: the test of the function name alone
trigLowerByName(lower) == hasTrigName(lower)

trigLower(lower) ==
  hasTrigName(lower) /\ ~includes(lower, <<"x">>) /\ ~includes(lower, <<"y">>)

isTrigFunction(expr) == trigLower(trim(toLowerCase(expr)))

\* String(result) when the result is a finite number, else "ERR"
resultString(result) == IF IsFiniteNumber(result) THEN NumToString(result) ELSE ERR

\* evaluate(replaceAnswerReferences(text))
evaluateResolved(text, h, vs) == evaluate(replaceVariablesAndAnswers(text, h, vs))

Preview(value, type) == [value |-> value, type |-> type]

\* variant: getPreview without the assignment test
previewOfExpression(varAssignment, trig, graph, result) ==
  IF trig /\ result.t = "throw" THEN Preview(ERR, "error")
  ELSE IF trig /\ IsFiniteNumber(result) THEN Preview(NumToString(result), "trig")
  ELSE IF graph THEN Preview(GRAPH, "graph")
  ELSE IF IsFiniteNumber(result) THEN Preview(NumToString(result), "normal")
  ELSE Preview(ERR, "error")

\* the branches of getPreview, given the classification and the evaluation of the text
previewOf(varAssignment, trig, graph, result) ==
  IF varAssignment.isAssignment
  THEN (IF varAssignment.error THEN Preview(ERR, "error")
        ELSE Preview(NumToString(varAssignment.value), "variable"))
  ELSE IF trig /\ result.t = "throw" THEN Preview(ERR, "error")
  ELSE IF trig /\ IsFiniteNumber(result) THEN Preview(NumToString(result), "trig")
  ELSE IF graph THEN Preview(GRAPH, "graph")
  ELSE IF IsFiniteNumber(result) THEN Preview(NumToString(result), "normal")
  ELSE Preview(ERR, "error")

getPreview(inp, h, vs) ==
  IF trim(inp) = <<>> THEN Preview(<<>>, "normal")
  ELSE previewOf(isVariableAssignment(inp, h, vs), isTrigFunction(inp),
                 isGraphEquation(inp), evaluateResolved(inp, h, vs))

(***************************************************************************)
(* Simplification tracer                                                   *)
(***************************************************************************)
IsParen(c) == c = "(" \/ c = ")"

\* end of the match of /\(([^()]+)\)/ that starts at i, or 0 when none starts there
groupEndAmong(s, i, parens) ==
  IF parens = {} THEN 0
  ELSE IF s[MinOfSet(parens)] = ")" /\ MinOfSet(parens) > i + 1 THEN MinOfSet(parens)
  ELSE 0

GroupEnd(s, i) ==
  IF s[i] # "(" THEN 0
  ELSE groupEndAmong(s, i, {k \in (i + 1)..Len(s) : IsParen(s[k])})

groupEvaluates(s, i, k) == k # 0 /\ IsFiniteNumber(evaluate(SubSeq(s, i + 1, k - 1)))

\* the innermost groups whose content evaluates to a finite number
ReplaceableGroups(s) == {i \in 1..Len(s) : groupEvaluates(s, i, GroupEnd(s, i))}

\* currentExpr.replace(match[0], String(innerResult)): the first occurrence of the text
replaceAt(s, i, len, by) ==
  IF i = 0 THEN s ELSE SubSeq(s, 1, i - 1) \o by \o SubSeq(s, i + len, Len(s))

replaceFirst(s, sub, by) == replaceAt(s, indexOf(s, sub), Len(sub), by)

\* variant: the value takes the place of the content of the group, between
\* its parentheses
replaceGroupContent(cur, i, k) ==
  replaceFirst(cur, SubSeq(cur, i + 1, k - 1), NumToString(evaluate(SubSeq(cur, i + 1, k - 1))))

\* one pass of the while loop: the first group of the scan that evaluates is replaced
replaceGroup(cur, i, k) ==
  replaceFirst(cur, SubSeq(cur, i, k), NumToString(evaluate(SubSeq(cur, i + 1, k - 1))))

RECURSIVE traceSteps(_)

stepsFrom(cur, newExpr) ==
  IF newExpr # cur THEN <<newExpr>> \o traceSteps(newExpr) ELSE <<>>

\* variant: the scan replaces the last group that evaluates
traceGroupsFromLast(cur, groups) ==
  IF groups = {} THEN <<>>
  ELSE stepsFrom(cur, replaceGroup(cur, MaxOfSet(groups), GroupEnd(cur, MaxOfSet(groups))))

traceGroups(cur, groups) ==
  IF groups = {} THEN <<>>
  ELSE stepsFrom(cur, replaceGroup(cur, MinOfSet(groups), GroupEnd(cur, MinOfSet(groups))))

traceSteps(cur) ==
  IF ~(includes(cur, <<"(">>) /\ includes(cur, <<")">>)) THEN <<>>
  ELSE traceGroups(cur, ReplaceableGroups(cur))

\* steps.join(' -> ')
RECURSIVE join(_, _)
join(steps, sep) ==
  IF steps = <<>> THEN <<>>
  ELSE IF Len(steps) = 1 THEN steps[1]
  ELSE steps[1] \o sep \o join(Tail(steps), sep)

getIntermediateExpression(expr, h, vs) ==
  join(traceSteps(replaceVariablesAndAnswers(expr, h, vs)), Separator)

\* expression.includes(' -> ') ? expression.split(' -> ')[0] : expression
firstSegment(expression, i) == IF i = 0 THEN expression ELSE SubSeq(expression, 1, i - 1)

originalExpression(expression) == firstSegment(expression, indexOf(expression, Separator))

(***************************************************************************)
(* Persistence: localStorage values are JSON texts.  A text is modelled as  *)
(* the list or object it spells, with every number as the characters       *)
(* JSON.stringify writes for it and an object without id as an empty id.   *)
(***************************************************************************)
\* the number a JSON number text spells: an integer, a finite non-integer, or a
\* finite number outside the evaluator of this model (no text)
parseNumber(text) ==
  IF text = <<>> THEN Unsup
  ELSE IF AllDigits(text) THEN Num(DigitsToNat(text))
  ELSE IF text[1] = "-" /\ AllDigits(Tail(text)) THEN Num(0 - DigitsToNat(Tail(text)))
  ELSE Real(text)

\* a member of the persisted list or object: a history entry or a number
jsonOf(v) ==
  IF "expression" \in DOMAIN v
  THEN [id |-> IF v.id = NoId THEN <<>> ELSE IntToStr(v.id),
        expression |-> v.expression,
        result |-> v.result,
        timestamp |-> IntToStr(v.timestamp)]
  ELSE [number |-> NumToString(v)]

valueOf(j) ==
  IF "expression" \in DOMAIN j
  THEN Entry(IF j.id = <<>> THEN NoId ELSE parseNumber(j.id).v,
             j.expression, j.result, parseNumber(j.timestamp).v)
  ELSE parseNumber(j.number)

stringify(x) == [json |-> [k \in DOMAIN x |-> jsonOf(x[k])]]
parse(blob) == [k \in DOMAIN blob.json |-> valueOf(blob.json[k])]

\* loadedHistory.map((entry, index) => ({ ...entry, id: entry.id || index + 1 }))
historyWithIds(loaded) ==
  [i \in 1..Len(loaded) |->
     [loaded[i] EXCEPT !.id = IF loaded[i].id # NoId THEN loaded[i].id ELSE i]]

\* variant: no save effect for the variables
variablesNotSaved(vs, stored) == stored

\* the save effects, run after a render in which the dependency changed
saveHistory(h, stored) == IF Len(h) > 0 THEN <<stringify(h)>> ELSE stored
saveVariables(vs, stored) == IF DOMAIN vs # {} THEN <<stringify(vs)>> ELSE stored

(***************************************************************************)
(* Graph viewport.  The page renders the graph panel with the input text   *)
(* as its expression.  The numbers of the viewport are JavaScript doubles; *)
(* they are modelled in fixed point, as the integer nearest to the value   *)
(* times Scale, and every product or quotient is rounded to the nearest    *)
(* such integer, as the double operations round to the nearest double.     *)
(***************************************************************************)
Scale == 10000

\* the integer nearest to a / b, for b > 0
RoundDiv(a, b) == (2 * a + b) \div (2 * b)

Max(a, b) == IF a > b THEN a ELSE b

\* useState(1), the limits of Math.min(10, ...) and Math.max(0.1, ...)
ZoomDefault == Scale
ZoomMax == 10 * Scale
ZoomMin == Scale \div 10

Point(x, y) == [x |-> x, y |-> y]
\* useState({ x: 0, y: 0 })
Origin == Point(0, 0)

\* the canvas element: width={570} height={520}
CanvasWidth == 570
CanvasHeight == 520

\* the || chain of shouldGraph on lower = expr.toLowerCase().trim()
shownLower(lower) ==
  IF hasTrigName(lower) THEN TRUE
  ELSE IF includes(lower, <<"y","=">>) THEN TRUE
  ELSE IF includes(lower, <<"y"," ","=">>) THEN TRUE
  ELSE hasStandaloneXY(lower)

shouldGraph(expr) == shownLower(trim(toLowerCase(expr)))

\* the panel, its controls and its canvas are rendered for this expression
panelShown(expr) == IF expr = <<>> THEN FALSE ELSE shouldGraph(expr)

\* prev * 1.2, prev / 1.2, zoomLevel * 0.9 and zoomLevel * 1.1
zoomedIn(prev) == RoundDiv(prev * 12, 10)
\* variant: zoom-out takes a fifth off, prev * 0.8
zoomedOutByFifth(prev) == RoundDiv(prev * 8, 10)
zoomedOut(prev) == RoundDiv(prev * 10, 12)
wheelFactor(deltaY) == IF deltaY > 0 THEN 9 ELSE 11
wheeled(zoom, deltaY) == RoundDiv(zoom * wheelFactor(deltaY), 10)

\* const baseRange = 10 / zoomLevel
baseRange(zoom) == RoundDiv(10 * Scale * Scale, zoom)
\* -(dx / canvas.width) * (baseRange * 2) and (dy / canvas.height) * (baseRange * 2)
graphDx(dx, zoom) == 0 - RoundDiv(dx * (baseRange(zoom) * 2), CanvasWidth)
graphDy(dy, zoom) == RoundDiv(dy * (baseRange(zoom) * 2), CanvasHeight)

\* useState<{ x: number; y: number } | null>(null)
NoHover == [shown |-> FALSE]

\* rect.left of the canvas and canvasX = e.clientX - rect.left
CanvasLeft == 0
canvasXOf(p) == p.x - CanvasLeft

\* graphX = xMin + (canvasX / canvas.width) * (xMax - xMin)
graphXOf(canvasX, zoom, pan) ==
  LET xMin == (0 - baseRange(zoom)) + pan.x
      xMax == baseRange(zoom) + pan.x
  IN  xMin + RoundDiv(canvasX * (xMax - xMin), CanvasWidth)

\* calculateYFromX: null when the value is no finite number or the evaluation
\* throws, and else the number evaluate returns for expr with x replaced by
\* (x) under the variables vs, kept as the term it is the value of
calculateYFromX(x, expr, vs, finite) ==
  IF finite THEN [expression |-> expr, variables |-> vs, x |-> x] ELSE NoHover

hoverAt(graphX, graphY) ==
  IF graphY # NoHover THEN [shown |-> TRUE, x |-> graphX, y |-> graphY] ELSE NoHover

\* the drag under way: where the pointer went down and the pan it found, and
\* the moves since; a drag during which a button, the wheel or a new
\* expression changed zoom or pan is unsteady
NoDrag == [steady |-> FALSE, dragging |-> FALSE]
Unsteady == [steady |-> FALSE, dragging |-> TRUE]

dragAfter(op, zoom, dragging, start) ==
  IF op = "mouseDown"
  THEN [steady |-> TRUE, at |-> start, pan |-> panOffset, moves |-> 0]
  ELSE IF ~dragging THEN NoDrag
  ELSE IF ~dragFrom.steady THEN dragFrom
  ELSE IF op = "mouseMove" THEN [dragFrom EXCEPT !.moves = @ + 1]
  ELSE IF op = "resetZoom" THEN Unsteady
  ELSE IF zoom # zoomLevel THEN Unsteady
  ELSE dragFrom

\* pan or zoom is away from its default
viewMoved == zoomLevel # ZoomDefault \/ panOffset # Origin

\* variant: a render without the effect on [expression]
viewAfterKeeping(inp) ==
  /\ UNCHANGED <<zoomLevel, panOffset>>
  /\ viewReset' = FALSE
  /\ isDragging' = (isDragging /\ panelShown(inp))
  /\ dragStart' = IF dragStart = Origin \/ panelShown(inp) THEN dragStart ELSE Origin
  /\ hoverPoint' = IF hoverPoint = NoHover \/ panelShown(inp) THEN hoverPoint ELSE NoHover
  /\ dragFrom' = IF dragFrom = NoDrag THEN NoDrag
                 ELSE IF ~panelShown(inp) THEN NoDrag
                 ELSE IF inp # input THEN Unsteady
                 ELSE dragFrom
  /\ UNCHANGED <<samples, path>>

\* the render after an event that leaves the input text inp: the effect on
\* [expression] resets pan and zoom when the text changed, and a canvas that is
\* no longer rendered loses its drag state; viewReset records that the event
\* brought a pan or zoom that was away from its default back to it
viewAfter(inp) ==
  /\ zoomLevel' = IF inp # input THEN ZoomDefault ELSE zoomLevel
  /\ panOffset' = IF inp # input THEN Origin ELSE panOffset
  /\ viewReset' = (inp # input /\ viewMoved)
  /\ isDragging' = (isDragging /\ panelShown(inp))
  /\ dragStart' = IF dragStart = Origin \/ panelShown(inp) THEN dragStart ELSE Origin
  /\ hoverPoint' = IF hoverPoint = NoHover \/ panelShown(inp) THEN hoverPoint ELSE NoHover
  /\ dragFrom' = IF dragFrom = NoDrag THEN NoDrag
                 ELSE IF ~panelShown(inp) THEN NoDrag
                 ELSE IF inp # input THEN Unsteady
                 ELSE dragFrom
  /\ UNCHANGED <<samples, path>>

(***************************************************************************)
(* Handlers.  Each action is one event handled to completion: the handler  *)
(* and the save effects of the render that follows it.  now is Date.now(), *)
(* lastOp names the handler that ran last, assignedIds records the ids     *)
(* given to entries: all of them, and those given since the last clear,    *)
(* recallRun counts the ArrowUp presses made from the cursor at none and   *)
(* the ArrowDown presses that followed them, with no other event between.  *)
(***************************************************************************)
NoRun == [ups |-> 0, downs |-> 0]

\* rawText maps the id of each entry committed since the last clear to the text
\* that was in the input box when it was committed
NoTexts == [id \in {} |-> <<>>]

textsAfter(op, h) ==
  IF op \in {"clearHistory", "clearAll"} THEN NoTexts
  ELSE IF op = "commit"
  THEN [id \in DOMAIN rawText \cup {h[1].id} |->
          IF id = h[1].id THEN input ELSE rawText[id]]
  ELSE rawText

runAfter(op) ==
  IF op = "recallPrevious"
  THEN (IF historyIndex = NoIndex THEN [ups |-> 1, downs |-> 0]
        ELSE IF recallRun.ups > 0 /\ recallRun.downs = 0
        THEN [recallRun EXCEPT !.ups = @ + 1]
        ELSE NoRun)
  ELSE IF op = "recallNext" /\ recallRun.downs < recallRun.ups
  THEN [recallRun EXCEPT !.downs = @ + 1]
  ELSE NoRun

\* the ids of the entries an event created at the head of the history h
createdIds(op, h) ==
  IF op = "commit" THEN {h[1].id}
  ELSE IF op = "showAbout" THEN {h[1].id, h[2].id}
  ELSE {}

idsAfter(op, h) ==
  [ever |-> assignedIds.ever \cup createdIds(op, h),
   sinceClear |-> IF op \in {"clearHistory", "clearAll"} THEN {}
                  ELSE assignedIds.sinceClear \cup createdIds(op, h)]

\* the state after an event: the values the setters were given
Handled(op, inp, h, idx, vs, lsH, lsV) ==
  /\ input' = inp
  /\ history' = h
  /\ historyIndex' = idx
  /\ variables' = vs
  /\ lsHistory' = lsH
  /\ lsVariables' = lsV
  /\ now' = now + 1
  /\ lastOp' = op
  /\ assignedIds' = idsAfter(op, h)
  /\ recallRun' = runAfter(op)
  /\ rawText' = textsAfter(op, h)
  /\ viewAfter(inp)
  /\ UNCHANGED mounted

\* events handled after the mount
MaxSteps == 4
\* the history rows a click is tried on: the first MaxClick and the last
MaxClick == 2

\* the page is mounted and the run has events left
Ready == mounted /\ now <= MaxSteps

\* a handler that calls no setter
Unchanged(op) ==
  Handled(op, input, history, historyIndex, variables, lsHistory, lsVariables)

loadHistory(stored, initial) ==
  IF stored # <<>> THEN historyWithIds(parse(stored[1])) ELSE initial

loadVariables(stored, initial) ==
  IF stored # <<>> THEN parse(stored[1]) ELSE initial

\* JSON.parse(saved) returns: the stored text, if any, spells JSON
Parses(stored) == IF stored = <<>> THEN TRUE ELSE "json" \in DOMAIN stored[1]

\* an effect of the page throws: JSON.parse or localStorage.setItem is called
\* with nothing to catch the error, React unmounts the page, and with it the
\* state of its components; what localStorage holds is kept
Thrown(op) ==
  /\ input' = <<>>
  /\ history' = <<>>
  /\ historyIndex' = NoIndex
  /\ variables' = EmptyVars
  /\ mounted' = FALSE
  /\ lastOp' = op
  /\ assignedIds' = [ever |-> {}, sinceClear |-> {}]
  /\ recallRun' = NoRun
  /\ rawText' = NoTexts
  /\ zoomLevel' = ZoomDefault
  /\ panOffset' = Origin
  /\ isDragging' = FALSE
  /\ dragStart' = Origin
  /\ viewReset' = FALSE
  /\ hoverPoint' = NoHover
  /\ dragFrom' = NoDrag
  /\ samples' = <<>>
  /\ path' = <<>>
  /\ UNCHANGED <<lsHistory, lsVariables>>

\* the two load effects of the first render, then the save effects of the second
Loaded ==
  /\ history' = loadHistory(lsHistory, history)
  /\ variables' = loadVariables(lsVariables, variables)
  /\ lsHistory' = saveHistory(loadHistory(lsHistory, history), lsHistory)
  /\ lsVariables' = saveVariables(loadVariables(lsVariables, variables), lsVariables)
  /\ mounted' = TRUE
  /\ lastOp' = "mount"
  /\ assignedIds' = [ever |-> Ids(loadHistory(lsHistory, history)),
                     sinceClear |-> Ids(loadHistory(lsHistory, history))]
  /\ UNCHANGED <<input, historyIndex, now, recallRun, rawText,
                 zoomLevel, panOffset, isDragging, dragStart, viewReset,
                 hoverPoint, samples, path, dragFrom>>

\* the first render of the page, and of every reload of it
Mount ==
  /\ ~mounted
  /\ IF Parses(lsHistory) /\ Parses(lsVariables)
     THEN Loaded
     ELSE Thrown("loadFailed") /\ UNCHANGED now

\* onChange after a character key, Backspace or Delete: the text becomes s
TextChanged(s) ==
  /\ Ready
  /\ Handled("textChanged", s, history, NoIndex, variables, lsHistory, lsVariables)

Commit(entry, setsVariables, vs) ==
  [entry |-> entry, setsVariables |-> setsVariables, variables |-> vs]

\* `${input} -> ${intermediateExpr}` when there are intermediate steps
\* variant: the entry keeps the input text alone
displayExpressionBare(inp, intermediateExpr) == inp

displayExpression(inp, intermediateExpr) ==
  IF intermediateExpr # <<>> /\ intermediateExpr # inp
  THEN inp \o Separator \o intermediateExpr ELSE inp

\* the branch the Enter handler takes: the tests in the order the code makes them
branchOf(isAssignment, trig, graph) ==
  IF isAssignment THEN "Assignment"
  ELSE IF trig THEN "TrigNumeric"
  ELSE IF graph THEN "Graph"
  ELSE "Plain"

inputKind(inp, h, vs) ==
  branchOf(isVariableAssignment(inp, h, vs).isAssignment, isTrigFunction(inp),
           isGraphEquation(inp))

\* the entry the Enter branch builds and the variable map it sets, given the
\* classification and the evaluation of the text
commitOf(kind, varAssignment, result, id, inp, h, vs, ts) ==
  IF kind = "Assignment" /\ varAssignment.error
  THEN Commit(Entry(id, inp, ERR, ts), FALSE, vs)
  ELSE IF kind = "Assignment"
  THEN Commit(Entry(id, inp, NumToString(varAssignment.value), ts), TRUE,
              setVariable(vs, varAssignment.varName, varAssignment.value))
  ELSE IF kind = "TrigNumeric" THEN Commit(Entry(id, inp, resultString(result), ts), FALSE, vs)
  ELSE IF kind = "Graph" THEN Commit(Entry(id, inp, GRAPH, ts), FALSE, vs)
  ELSE IF IsFiniteNumber(result)
  THEN Commit(Entry(id, displayExpression(inp, getIntermediateExpression(inp, h, vs)),
                    NumToString(result), ts), FALSE, vs)
  ELSE Commit(Entry(id, inp, ERR, ts), FALSE, vs)

commitEntry(inp, h, vs, ts) ==
  commitOf(inputKind(inp, h, vs), isVariableAssignment(inp, h, vs),
           evaluateResolved(inp, h, vs), maxId(h) + 1, inp, h, vs, ts)

\* variant: the commit without setHistoryIndex(-1)
CommittedKeepingCursor(c, h) ==
  Handled("commit", <<>>, h, historyIndex, c.variables, saveHistory(h, lsHistory),
          IF c.setsVariables THEN saveVariables(c.variables, lsVariables) ELSE lsVariables)

\* setHistory([entry, ...history].slice(0, 100)); setInput(""); setHistoryIndex(-1)
Committed(c, h) ==
  Handled("commit", <<>>, h, NoIndex, c.variables, saveHistory(h, lsHistory),
          IF c.setsVariables THEN saveVariables(c.variables, lsVariables) ELSE lsVariables)

CommitOf(c) == Committed(c, pushEntry(c.entry, history))

\* handleKeyDown, key "Enter"
\* variant: Enter on a blank text empties the box and sets the cursor to none
EnterClearingBlank ==
  /\ Ready
  /\ IF trim(input) # <<>>
     THEN CommitOf(commitEntry(input, history, variables, now))
     ELSE Handled("enterBlank", <<>>, history, NoIndex, variables, lsHistory, lsVariables)

Enter ==
  /\ Ready
  /\ IF trim(input) # <<>>
     THEN CommitOf(commitEntry(input, history, variables, now))
     ELSE Unchanged("enterBlank")

\* Enter on a text that is not blank while localStorage takes no more data: the
\* setters run, and the save effect of the next render calls setItem, which
\* throws
EnterStorageFull ==
  /\ Ready
  /\ trim(input) # <<>>
  /\ Thrown("saveFailed")
  /\ now' = now + 1

\* handleKeyDown, key "Escape"
Escape ==
  /\ Ready
  /\ Handled("cancel", <<>>, history, NoIndex, variables, lsHistory, lsVariables)

Recalled(op, newIndex) ==
  Handled(op, originalExpression(history[newIndex + 1].expression), history, newIndex,
          variables, lsHistory, lsVariables)

\* handleKeyDown, key "ArrowUp"
ArrowUp ==
  /\ Ready
  /\ IF Len(history) > 0
     THEN Recalled("recallPrevious", Min(historyIndex + 1, Len(history) - 1))
     ELSE Unchanged("recallPrevious")

\* variant: ArrowDown on the newest entry without setInput("")
ArrowDownKeepingText ==
  /\ Ready
  /\ IF historyIndex > 0
     THEN (IF historyIndex <= Len(history)
           THEN Recalled("recallNext", historyIndex - 1)
           ELSE Handled("recallNextThrew", input, history, historyIndex - 1, variables,
                        lsHistory, lsVariables))
     ELSE IF historyIndex = 0
     THEN Handled("recallNext", input, history, NoIndex, variables, lsHistory, lsVariables)
     ELSE Unchanged("recallNext")

\* handleKeyDown, key "ArrowDown"; reading history[newIndex] past the end throws
\* after setHistoryIndex has been called
ArrowDown ==
  /\ Ready
  /\ IF historyIndex > 0
     THEN (IF historyIndex <= Len(history)
           THEN Recalled("recallNext", historyIndex - 1)
           ELSE Handled("recallNextThrew", input, history, historyIndex - 1, variables,
                        lsHistory, lsVariables))
     ELSE IF historyIndex = 0
     THEN Handled("recallNext", <<>>, history, NoIndex, variables, lsHistory, lsVariables)
     ELSE Unchanged("recallNext")

\* History entry onClick: onSelectEntry(originalExpression)
Clickable == {i \in 1..Len(history) : i <= MaxClick \/ i = Len(history)}

SelectEntry(i) ==
  /\ Ready
  /\ i \in 1..Len(history)
  /\ Handled("selectEntry", originalExpression(history[i].expression), history,
             historyIndex, variables, lsHistory, lsVariables)

\* variant: a clearHistory that wipes the variables too
clearHistoryAndVariables ==
  /\ Ready
  /\ Handled("clearHistory", input, <<>>, historyIndex, EmptyVars, <<>>, <<>>)

clearHistory ==
  /\ Ready
  /\ Handled("clearHistory", input, <<>>, historyIndex, variables, <<>>, lsVariables)

clearVariables ==
  /\ Ready
  /\ Handled("clearVariables", input, history, historyIndex, EmptyVars, lsHistory, <<>>)

\* the CLEAR ALL button: clearHistory(); clearVariables()
ClearAll ==
  /\ Ready
  /\ Len(history) > 0 \/ DOMAIN variables # {}
  /\ Handled("clearAll", input, <<>>, historyIndex, EmptyVars, <<>>, <<>>)

WebsiteStr == <<"W","e","b","s","i","t","e">>
UrlStr == <<"h","t","t","p","s",":","/","/","m","a","t","t","c","n","g",".","c","o","m">>
DesignedByStr == <<"D","e","s","i","g","n","e","d"," ","b","y">>
MattStr == <<"M","a","t","t">>

aboutEntries(h, ts) ==
  << Entry(maxId(h) + 2, WebsiteStr, UrlStr, ts + 1),
     Entry(maxId(h) + 1, DesignedByStr, MattStr, ts) >>

AboutShown(h) ==
  Handled("showAbout", input, h, historyIndex, variables, saveHistory(h, lsHistory),
          lsVariables)

showAbout ==
  /\ Ready
  /\ AboutShown(aboutEntries(history, now) \o history)

\* const preview = getPreview(): the value a render shows for the current state
preview == getPreview(input, history, variables)

\* variant: a render that stores the assignment it previews
RenderStoring ==
  /\ Ready
  /\ lastOp' = "render"
  /\ variables' = IF preview.type = "variable"
                  THEN setVariable(variables, isVariableAssignment(input, history, variables).varName,
                                   isVariableAssignment(input, history, variables).value)
                  ELSE variables
  /\ recallRun' = NoRun
  /\ UNCHANGED <<input, history, historyIndex, lsHistory, lsVariables, now, mounted, assignedIds,
                 rawText, zoomLevel, panOffset, isDragging, dragStart,
                 hoverPoint, samples, path, dragFrom>>
  /\ viewReset' = FALSE

\* a render with no event: getPreview() runs again and calls no setter
Render ==
  /\ Ready
  /\ lastOp' = "render"
  /\ recallRun' = NoRun
  /\ UNCHANGED <<input, history, historyIndex, variables, lsHistory, lsVariables, now,
                 mounted, assignedIds, rawText, zoomLevel, panOffset, isDragging, dragStart,
                 hoverPoint, samples, path, dragFrom>>
  /\ viewReset' = FALSE

\* an event of the graph panel: the values its setters were given; the store,
\* the input box and the recall cursor are out of its reach
Viewed(op, zoom, pan, dragging, start, hover) ==
  /\ Ready
  /\ panelShown(input)
  /\ zoomLevel' = zoom
  /\ panOffset' = pan
  /\ isDragging' = dragging
  /\ dragStart' = start
  /\ hoverPoint' = hover
  /\ dragFrom' = dragAfter(op, zoom, dragging, start)
  /\ viewReset' = (viewMoved /\ zoom = ZoomDefault /\ pan = Origin)
  /\ now' = now + 1
  /\ lastOp' = op
  /\ recallRun' = NoRun
  /\ UNCHANGED <<input, history, historyIndex, variables, lsHistory, lsVariables,
                 mounted, assignedIds, rawText, samples, path>>

\* variant: the zoom-in button without its upper limit
handleZoomInUnbounded ==
  Viewed("zoomIn", zoomedIn(zoomLevel), panOffset, isDragging, dragStart, hoverPoint)

handleZoomIn ==
  Viewed("zoomIn", Min(ZoomMax, zoomedIn(zoomLevel)), panOffset, isDragging, dragStart, hoverPoint)

handleZoomOut ==
  Viewed("zoomOut", Max(ZoomMin, zoomedOut(zoomLevel)), panOffset, isDragging, dragStart, hoverPoint)

handleResetZoom ==
  Viewed("resetZoom", ZoomDefault, Origin, isDragging, dragStart, hoverPoint)

handleWheel(deltaY) ==
  Viewed("wheel", Max(ZoomMin, Min(ZoomMax, wheeled(zoomLevel, deltaY))),
         panOffset, isDragging, dragStart, hoverPoint)

\* the pointer is at pixel p of the page
handleMouseDown(p) ==
  Viewed("mouseDown", zoomLevel, panOffset, TRUE, p, hoverPoint)

\* variant: a drag move that leaves the drag start where the button went down
handleMouseMoveFromDown(p, finite) ==
  IF isDragging
  THEN Viewed("mouseMove", zoomLevel,
              Point(panOffset.x + graphDx(p.x - dragStart.x, zoomLevel),
                    panOffset.y + graphDy(p.y - dragStart.y, zoomLevel)),
              isDragging, dragStart, hoverPoint)
  ELSE Viewed("mouseMove", zoomLevel, panOffset, isDragging, dragStart, hoverPoint)

\* while dragging the pan follows the pointer; a move that is no drag sets the
\* hover point; finite: the expression has a finite value under the pointer
handleMouseMove(p, finite) ==
  IF isDragging
  THEN Viewed("mouseMove", zoomLevel,
              Point(panOffset.x + graphDx(p.x - dragStart.x, zoomLevel),
                    panOffset.y + graphDy(p.y - dragStart.y, zoomLevel)),
              isDragging, p, hoverPoint)
  ELSE Viewed("mouseMove", zoomLevel, panOffset, isDragging, dragStart,
              hoverAt(graphXOf(canvasXOf(p), zoomLevel, panOffset),
                      calculateYFromX(graphXOf(canvasXOf(p), zoomLevel, panOffset),
                                      input, variables, finite)))

handleMouseUp ==
  Viewed("mouseUp", zoomLevel, panOffset, FALSE, dragStart, hoverPoint)

\* variant: leaving the canvas ends the drag and keeps the hover point
handleMouseLeaveHovering ==
  Viewed("mouseLeave", zoomLevel, panOffset, FALSE, dragStart, hoverPoint)

handleMouseLeave ==
  Viewed("mouseLeave", zoomLevel, panOffset, FALSE, dragStart, NoHover)

\* the column loop of drawGraph from column px on: smp[px + 1] is what
\* evaluate gives for column px, a thrown error included; a finite number is
\* moved to when it is the first point and lined to otherwise, anything else
\* is skipped. A point is kept with its column and its value: canvasX = px,
\* and canvasY is the value mapped to the canvas height
RECURSIVE stroke(_, _, _)
stroke(smp, px, firstPoint) ==
  IF px >= Len(smp) THEN <<>>
  ELSE IF IsFiniteNumber(smp[px + 1])
       THEN <<[op |-> IF firstPoint THEN "moveTo" ELSE "lineTo", px |-> px, y |-> smp[px + 1]]>>
              \o stroke(smp, px + 1, FALSE)
       ELSE stroke(smp, px + 1, firstPoint)

\* the draw effect of the canvas: the function is sampled column by column
\* and stroked; smp is what the evaluations give in this view
drawGraph(smp) ==
  /\ Ready
  /\ panelShown(input)
  /\ samples' = smp
  /\ path' = stroke(smp, 0, TRUE)
  /\ lastOp' = "draw"
  /\ recallRun' = NoRun
  /\ viewReset' = FALSE
  /\ UNCHANGED <<input, history, historyIndex, variables, lsHistory, lsVariables, now,
                 mounted, assignedIds, rawText, zoomLevel, panOffset, isDragging, dragStart,
                 hoverPoint, dragFrom>>

(***************************************************************************)
(* Bounds, inputs and persisted blobs                                      *)
(***************************************************************************)
S_a3 == <<"a","=","3">>
S_aPlus1 == <<"a","+","1">>
S_bEmpty == <<"b","=">>
S_aDivZero == <<"a","=","1","/","0">>
S_aSin == <<"a","=","s","i","n">>
S_aOpen == <<"a","=","(">>
S_xIs2 == <<"X"," ","=","2">>
S_yIs1 == <<"y","=","1">>
S_sin0 == <<"s","i","n","(","0",")">>
S_sinx == <<"s","i","n","(","x",")">>
S_trace == <<"(","2","+","3",")","*","4">>
S_ans == <<"a","n","s","+","1">>
S_blank == <<" ">>
S_one == <<"1","+","1">>

Inputs == {S_a3, S_aPlus1, S_bEmpty, S_aDivZero, S_aSin, S_aOpen, S_xIs2, S_yIs1,
           S_sin0, S_sinx, S_trace, S_ans, S_blank}

\* one text of each kind of commit: assignment, error, graph
CommitInputs == {S_a3, S_bEmpty, S_sinx}

\* the pieces a typed text is put together from
Chunks == { <<"s","i","n">>, <<"c","o","s">>, <<"t","a","n">>, <<"S","I","N">>,
            <<"x">>, <<"y">>, <<"Y">>, <<"a">>, <<"=">>, <<" ">>, <<"0">>, <<"(","0",")">> }

\* events handled after the mount in the runs near the cap, in the runs of commits
\* only, in the runs that type a text piece by piece, and in the runs of recalls
CapSteps == 3
CommitSteps == 7
ClassifySteps == 3
RecallSteps == 6
\* events handled after the mount in the runs of the graph panel
GraphSteps == 14
\* events handled after the mount in the runs that change the expression
ViewSteps == 5
\* events handled after the mount in the runs that commit answer tokens
AnsSteps == 4
\* the events of a run of the graph panel in which the pointer is used: its first
DragSteps == 4
DrawSteps == 3
TraceSteps == 5
StorageSteps == 4
PanSteps == 6
\* columns of the canvas the sampler scans in a run
ScanWidth == 4

\* Date.now() at the commit of the i-th newest entry of a stored list: before
\* the clock of every run starts
savedAt(i) ==
  0 - (CapSteps + CommitSteps + ClassifySteps + RecallSteps + GraphSteps + ViewSteps + AnsSteps) - i

\* a history as this program saves it after n commits of 1+1: newest first
SavedHistory(n) == [i \in 1..n |-> Entry(n + 1 - i, S_one, <<"2">>, savedAt(i))]
\* the same rows as saved before entries carried ids
LegacyHistory(n) == [i \in 1..n |-> Entry(NoId, S_one, <<"2">>, savedAt(i))]
\* a list in which only some rows carry an id
MixedHistory == << Entry(2, S_one, <<"2">>, savedAt(1)), Entry(NoId, S_one, <<"2">>, savedAt(2)) >>

StoredHistories ==
  {<<>>} \cup {<<stringify(b)>> : b \in {SavedHistory(2), LegacyHistory(2), MixedHistory}}

CapHistories == {SavedHistory(HistoryCap - 1), SavedHistory(HistoryCap),
                 LegacyHistory(HistoryCap)}

\* a text that holds the trace separator itself
S_arrow == <<"1", " ", ArrowChar, " ", "2">>

RecallInputs == {S_arrow, S_trace}

\* a history of three commits as this program saves it: a=3 last, before it
\* (2+3)*4 with its trace, before it 1+1
RecallHistory ==
  << Entry(3, S_a3, <<"3">>, savedAt(1)),
     Entry(2, S_trace \o Separator \o <<"5", "*", "4">>, <<"2", "0">>, savedAt(2)),
     Entry(1, S_one, <<"2">>, savedAt(3)) >>

\* its last n entries: the history after the first n of the three commits
RecallHistories == {SubSeq(RecallHistory, 4 - n, 3) : n \in 1..3}

\* texts that hold an answer token by id: in a sum, in a sum with x, in an
\* assignment
S_ans1 == <<"a","n","s","1","+","1">>
S_ans12 == <<"a","n","s","1","2","+","1">>
S_xAns12 == <<"x","+","a","n","s","1","2">>
S_aAns12 == <<"a","=","a","n","s","1","2">>

AnsInputs == {S_ans1, S_ans12, S_xAns12, S_aAns12}

\* a history as this program saves it after n commits, the k-th of them of k*3
AnsHistory(n) ==
  [i \in 1..n |-> Entry(n + 1 - i, IntToStr(n + 1 - i) \o <<"*", "3">>,
                        IntToStr(3 * (n + 1 - i)), savedAt(i))]

\* histories in which the ids 1 and 12 are both absent after one more commit,
\* only 12 is, or neither is
AnsHistories == {AnsHistory(1), AnsHistory(12), AnsHistory(HistoryCap)}

\* texts of the box in the runs of the graph panel: one that is graphed and one
\* that is not
GraphInputs == {S_sinx, S_one}

\* pixels the pointer is pressed at and moved to
Pointers == {Point(100, 100), Point(157, 48)}

\* wheel notches: away from the user and towards the user
WheelDeltas == {-100, 100}

\* texts of the box in the runs that change the expression of the panel
ViewInputs == {S_yIs1, S_one}

\* a history as this program saves it after the commits of 1+1 and of sin(x)
ViewHistory == << Entry(2, S_sinx, GRAPH, savedAt(1)), Entry(1, S_one, <<"2">>, savedAt(2)) >>

StoredVariables == {<<>>, <<stringify([n \in {"a"} |-> Num(7)])>>}

(***************************************************************************)
(* Specifications                                                          *)
(***************************************************************************)
\* the state after construction: the useState defaults, before the first effects;
\* the clock reads start
Constructed(start) ==
  /\ input = <<>>
  /\ history = <<>>
  /\ historyIndex = NoIndex
  /\ variables = EmptyVars
  /\ now = start
  /\ lastOp = "init"
  /\ mounted = FALSE
  /\ assignedIds = [ever |-> {}, sinceClear |-> {}]
  /\ recallRun = NoRun
  /\ rawText = NoTexts
  /\ zoomLevel = ZoomDefault
  /\ panOffset = Origin
  /\ isDragging = FALSE
  /\ dragStart = Origin
  /\ viewReset = FALSE
  /\ hoverPoint = NoHover
  /\ dragFrom = NoDrag
  /\ samples = <<>>
  /\ path = <<>>

Init ==
  /\ Constructed(1)
  /\ lsHistory \in StoredHistories
  /\ lsVariables \in StoredVariables

\* the state a persisted session near the history cap starts from
InitCap ==
  /\ Constructed(MaxSteps - CapSteps + 1)
  /\ lsHistory \in {<<stringify(b)>> : b \in CapHistories}
  /\ lsVariables = <<>>

\* a first visit: nothing persisted but, possibly, variables
InitFresh ==
  /\ Constructed(MaxSteps - CommitSteps + 1)
  /\ lsHistory = <<>>
  /\ lsVariables \in StoredVariables

InitClassify ==
  /\ Constructed(MaxSteps - ClassifySteps + 1)
  /\ lsHistory = <<>>
  /\ lsVariables = <<>>

InitRecall ==
  /\ Constructed(MaxSteps - RecallSteps + 1)
  /\ lsHistory \in {<<stringify(b)>> : b \in RecallHistories}
  /\ lsVariables = <<>>

InitGraph ==
  /\ Constructed(MaxSteps - GraphSteps + 1)
  /\ lsHistory = <<>>
  /\ lsVariables = <<>>

InitView ==
  /\ Constructed(MaxSteps - ViewSteps + 1)
  /\ lsHistory \in {<<>>, <<stringify(ViewHistory)>>}
  /\ lsVariables = <<>>

InitAns ==
  /\ Constructed(MaxSteps - AnsSteps + 1)
  /\ lsHistory \in {<<stringify(b)>> : b \in AnsHistories}
  /\ lsVariables = <<>>

S_sqrt16 == <<"s","q","r","t","(","1","6",")","+","1">>
S_negSquared == <<"(","1","-","3",")","^","2">>
S_minusGroup == <<"2","-","(","1","-","3",")">>
S_nested == <<"(","(","1","+","2",")","*","3",")","+","(","a",")">>
S_unbound == <<"(","q",")","+","(","1",")">>
S_open == <<"(","(","1",")">>
S_overInf == <<"1","/","(","1","/","0",")","+","(","2",")">>

\* texts with parentheses: plain and trig, with groups that are a call's
\* arguments, negative, nested, a variable, unbound or unbalanced
TraceInputs == {S_trace, S_sin0, S_sqrt16, S_negSquared, S_minusGroup, S_nested,
                S_unbound, S_open, S_overInf, S_one}

InitTrace ==
  /\ Constructed(MaxSteps - TraceSteps + 1)
  /\ lsHistory = <<>>
  /\ lsVariables \in StoredVariables

\* a stored text that is no JSON
CorruptBlob == [text |-> <<"[", "{">>]

\* localStorage as another program, a hand or a full disk may have left it
InitStorage ==
  /\ Constructed(MaxSteps - StorageSteps + 1)
  /\ lsHistory \in {<<>>, <<CorruptBlob>>, <<stringify(SavedHistory(1))>>}
  /\ lsVariables \in {<<>>, <<CorruptBlob>>}

DragPointers == Pointers \cup {Point(300, 200)}

InitPan ==
  /\ Constructed(MaxSteps - PanSteps + 1)
  /\ lsHistory = <<>>
  /\ lsVariables = <<>>

\* what evaluate gives for one column
Samples == {Num(1), PInf, NonNum, Throw}
SampleRows == [1..ScanWidth -> Samples]

InitDraw ==
  /\ Constructed(MaxSteps - DrawSteps + 1)
  /\ lsHistory = <<>>
  /\ lsVariables = <<>>

Next ==
  \/ Mount
  \/ \E s \in Inputs : TextChanged(s)
  \/ Enter
  \/ Escape
  \/ ArrowUp
  \/ ArrowDown
  \/ \E i \in Clickable : SelectEntry(i)
  \/ clearHistory
  \/ clearVariables
  \/ ClearAll
  \/ showAbout
  \/ Render

\* the events that leave the history alone or commit to it
NextCommits ==
  \/ Mount
  \/ \E s \in CommitInputs : TextChanged(s)
  \/ Enter
  \/ Escape
  \/ ArrowUp
  \/ ArrowDown
  \/ clearVariables
  \/ Render

\* a text typed piece by piece, committed or cancelled
NextClassify ==
  \/ Mount
  \/ \E c \in Chunks : TextChanged(input \o c)
  \/ Enter
  \/ Escape

\* recalls, clicks on history rows, and commits of what the box holds
NextRecall ==
  \/ Mount
  \/ \E s \in RecallInputs : TextChanged(s)
  \/ Enter
  \/ Escape
  \/ ArrowUp
  \/ ArrowDown
  \/ \E i \in Clickable : SelectEntry(i)

\* the pointer is used in the first DragSteps events of a run, and moves over
\* the canvas only with the button held
PointerUsed == now <= MaxSteps - GraphSteps + DragSteps

\* the events of the graph panel and the edits that change its expression
NextGraph ==
  \/ Mount
  \/ \E s \in GraphInputs : TextChanged(s)
  \/ handleZoomIn
  \/ handleZoomOut
  \/ handleResetZoom
  \/ \E deltaY \in WheelDeltas : handleWheel(deltaY)
  \/ \E p \in Pointers : PointerUsed /\ handleMouseDown(p)
  \/ \E p \in Pointers : PointerUsed /\ isDragging /\ handleMouseMove(p, TRUE)
  \/ PointerUsed /\ handleMouseUp
  \/ PointerUsed /\ handleMouseLeave

\* the events of the graph panel and every event that changes the input text
NextView ==
  \/ Mount
  \/ \E s \in ViewInputs : TextChanged(s)
  \/ Enter
  \/ Escape
  \/ ArrowUp
  \/ ArrowDown
  \/ \E i \in Clickable : SelectEntry(i)
  \/ handleZoomIn
  \/ handleZoomOut
  \/ handleResetZoom
  \/ \E deltaY \in WheelDeltas : handleWheel(deltaY)
  \/ \E p \in Pointers : handleMouseDown(p)
  \/ \E p \in Pointers, finite \in BOOLEAN : handleMouseMove(p, finite)
  \/ handleMouseUp
  \/ handleMouseLeave

\* commits of texts that hold answer tokens, and clears of the history
NextAns ==
  \/ Mount
  \/ \E s \in AnsInputs : TextChanged(s)
  \/ Enter
  \/ clearHistory

Spec == Init /\ [][Next]_vars

SpecRecall == InitRecall /\ [][NextRecall]_vars

SpecGraph == InitGraph /\ [][NextGraph]_vars

SpecView == InitView /\ [][NextView]_vars

\* a graphed expression and the redraws of its canvas
NextDraw ==
  \/ Mount
  \/ \E s \in GraphInputs : TextChanged(s)
  \/ \E smp \in SampleRows : drawGraph(smp)

SpecDraw == InitDraw /\ [][NextDraw]_vars

\* texts with parentheses, typed and committed
NextTrace ==
  \/ Mount
  \/ \E s \in TraceInputs : TextChanged(s)
  \/ Enter

SpecTrace == InitTrace /\ [][NextTrace]_vars

\* commits with a localStorage that may fail to give or to take
NextStorage ==
  \/ Mount
  \/ \E s \in CommitInputs : TextChanged(s)
  \/ Enter
  \/ EnterStorageFull

SpecStorage == InitStorage /\ [][NextStorage]_vars

\* drags of a graph, at the zoom levels the buttons give
NextPan ==
  \/ Mount
  \/ TextChanged(S_sinx)
  \/ handleZoomIn
  \/ handleZoomOut
  \/ \E p \in DragPointers : handleMouseDown(p)
  \/ \E p \in DragPointers : isDragging /\ handleMouseMove(p, TRUE)
  \/ handleMouseUp
  \/ handleMouseLeave

SpecPan == InitPan /\ [][NextPan]_vars

SpecAns == InitAns /\ [][NextAns]_vars

SpecCap == InitCap /\ [][Next]_vars

SpecCommits == InitFresh /\ [][NextCommits]_vars

SpecClassify == InitClassify /\ [][NextClassify]_vars

(***************************************************************************)
(* Properties                                                              *)
(***************************************************************************)
Entries(h) == {h[i] : i \in DOMAIN h}

IdsDistinct(h) == \A i, j \in DOMAIN h : i # j => h[i].id # h[j].id

\* a step is a commit of non-blank input exactly when it sets lastOp to "commit"
CommitStep == lastOp' = "commit"

\* C1: after a commit of non-blank input the history holds at most 100 entries;
\* a commit on a history of 100 entries leaves exactly 100, the new entry among
\* them, and removes one entry only, the one with the smallest id.
C1_CommitEvictsSmallestId ==
  [][CommitStep =>
       /\ Len(history') <= HistoryCap
       /\ Len(history) = HistoryCap =>
            /\ Len(history') = HistoryCap
            /\ history'[1].id \notin Ids(history)
            /\ Entries(history) \ Entries(history') =
                 {e \in Entries(history) : e.id = MinOfSet(Ids(history))}]_vars

\* C2: in every reachable state the history holds at most 100 entries.
C2_HistoryWithinCap == Len(history) <= HistoryCap

\* C3: after every step the ids of the history are pairwise distinct (the startup
\* load included), and every entry a commit or the About insertion creates has
\* an id greater than the id of every entry present before the step.
C3_DistinctIncreasingIds ==
  [][/\ IdsDistinct(history')
     /\ \A id \in createdIds(lastOp', history') : \A k \in Ids(history) : id > k]_vars

\* C4, as stated: no entry is created with an id that was ever assigned before,
\* whatever commits, cap evictions and clears came in between.
C4_IdNeverReused ==
  [][createdIds(lastOp', history') \cap assignedIds.ever = {}]_vars

\* C4, amended: no entry is created with an id that was assigned since the last
\* clear of the history (or since the load), whatever commits, About insertions
\* and cap evictions came in between.
C4_IdNotReusedSinceClear ==
  [][createdIds(lastOp', history') \cap assignedIds.sinceClear = {}]_vars

\* a commit at the cap has evicted an entry, and its id is not the new entry's
C4_EvictedIdNotReused ==
  /\ lastOp = "commit"
  /\ Len(history) = HistoryCap
  /\ \E id \in assignedIds.sinceClear : id \notin Ids(history) /\ id < history[1].id

\* C5: from an empty history, after N commits of non-blank input the ids are
\* exactly 1..N in creation order (the newest entry first in the array), whatever
\* clearVariables, recall, cancel and render steps came in between.
C5_IdsCountUp ==
  /\ Len(history) = Cardinality(assignedIds.ever)
  /\ \A i \in 1..Len(history) : history[i].id = Len(history) + 1 - i

\* three commits, with a clearVariables after the assignment of the first one
C5_ThreeCommits ==
  /\ Len(history) = 3
  /\ history[3].expression = S_a3
  /\ history[3].result = <<"3">>
  /\ variables = EmptyVars
  /\ Ids(history) = {1, 2, 3}

\* the commit of this step is a successful assignment to the variable v
AssignsTo(v) ==
  /\ CommitStep
  /\ isVariableAssignment(input, history, variables).isAssignment
  /\ ~isVariableAssignment(input, history, variables).error
  /\ isVariableAssignment(input, history, variables).varName = v

Bound(vs, v, val) == v \in DOMAIN vs /\ vs[v] = val

\* C6: a commit of a=3 binds a to 3; a commit of a+1 records the bound value plus
\* one; and a binding is left as it is by every step other than a successful
\* assignment to the same variable, clearVariables and CLEAR ALL.
C6_BindingPersists ==
  [][/\ CommitStep /\ input = S_a3 => Bound(variables', "a", Num(3))
     /\ CommitStep /\ input = S_aPlus1 /\ "a" \in DOMAIN variables =>
          history'[1].result = IntToStr(variables["a"].v + 1)
     /\ \A v \in DOMAIN variables :
          \/ Bound(variables', v, variables[v])
          \/ lastOp' \in {"clearVariables", "clearAll"}
          \/ AssignsTo(v)]_vars

\* a=3 was committed, then a+1, which recorded 4
C6_BindingUsed ==
  /\ lastOp = "commit"
  /\ Len(history) >= 2
  /\ history[2].expression = S_a3
  /\ history[1].expression = S_aPlus1
  /\ history[1].result = <<"4">>
  /\ Bound(variables, "a", Num(3))

\* assignments whose right-hand side is empty, not finite, not a number, not evaluable
FailingAssignments == {S_bEmpty, S_aDivZero, S_aSin, S_aOpen}

\* C7: the commit of an assignment whose right-hand side is empty, fails to
\* evaluate, or is not a finite number puts exactly one entry, with result ERR,
\* in front of the history and leaves the variable map as it was.
C7_FailedAssignment ==
  [][CommitStep /\ input \in FailingAssignments =>
       /\ history'[1].expression = input
       /\ history'[1].result = ERR
       /\ Len(history') = Min(Len(history) + 1, HistoryCap)
       /\ SubSeq(history', 2, Len(history')) = SubSeq(history, 1, Len(history') - 1)
       /\ variables' = variables
       /\ lsVariables' = lsVariables]_vars

\* a=1/0 was committed while a was bound, and a is still bound
C7_BindingKept ==
  /\ lastOp = "commit"
  /\ history[1].expression = S_aDivZero
  /\ history[1].result = ERR
  /\ "a" \in DOMAIN variables

ReservedNames == {"x", "y", "X", "Y"}

\* C8: no key of the variable map, in memory or persisted, is x or y in either case.
C8_NoXYVariable ==
  /\ DOMAIN variables \cap ReservedNames = {}
  /\ lsVariables # <<>> => DOMAIN parse(lsVariables[1]) \cap ReservedNames = {}

\* "X =2" was committed, as a graph
C8_XCommitted ==
  /\ lastOp = "commit"
  /\ history[1].expression = S_xIs2
  /\ history[1].result = GRAPH

\* the kind of a text with the tests in the stated order: Assignment, Graph,
\* TrigNumeric, Plain
statedKind(inp, h, vs) ==
  IF isVariableAssignment(inp, h, vs).isAssignment THEN "Assignment"
  ELSE IF isGraphEquation(inp) THEN "Graph"
  ELSE IF isTrigFunction(inp) THEN "TrigNumeric"
  ELSE "Plain"

Lower(inp) == trim(toLowerCase(inp))

\* C9: for every typed text the graph and trig predicates never both hold, the
\* branch the code takes (trig tested before graph) is the kind of the stated
\* order, a text with a trig name that is no assignment is Graph when it holds x
\* or y and TrigNumeric when it holds neither, and a committed text was recorded
\* as GRAPH exactly when its stated kind is Graph.
C9_Classification ==
  /\ ~(isTrigFunction(input) /\ isGraphEquation(input))
  /\ inputKind(input, history, variables) = statedKind(input, history, variables)
  /\ hasTrigName(Lower(input)) /\ statedKind(input, history, variables) # "Assignment" =>
       statedKind(input, history, variables) =
         IF includes(Lower(input), <<"x">>) \/ includes(Lower(input), <<"y">>)
         THEN "Graph" ELSE "TrigNumeric"
  /\ lastOp = "commit" =>
       (history[1].result = GRAPH <=>
          statedKind(originalExpression(history[1].expression), history, variables) = "Graph")

\* the text sinx, a trig name with x, was committed and recorded as a graph
C9_TrigWithX ==
  /\ lastOp = "commit"
  /\ history[1].expression = <<"s","i","n","x">>
  /\ history[1].result = GRAPH

\* C10: a render, which computes the preview, leaves the history, the variable
\* map, the recall cursor, the input text and the persisted values as they were.
C10_PreviewChangesNothing ==
  [][lastOp' = "render" =>
       UNCHANGED <<history, variables, historyIndex, input, lsHistory, lsVariables>>]_vars

\* the preview of a=3 shows 3 as a variable preview while a is not bound
C10_AssignmentPreviewed ==
  /\ lastOp = "render"
  /\ input = S_a3
  /\ preview = Preview(<<"3">>, "variable")
  /\ "a" \notin DOMAIN variables

\* C11: a commit of non-blank input records as the result of the new entry the
\* value the preview showed for that input in the state before the commit.
C11_CommitRecordsPreview ==
  [][CommitStep => history'[1].result = preview.value]_vars

\* (2+3)*4 was committed with its trace and result 20, the value its preview shows
C11_TracedCommit ==
  /\ lastOp = "commit"
  /\ history[1].expression # S_trace
  /\ originalExpression(history[1].expression) = S_trace
  /\ history[1].result = <<"2", "0">>
  /\ getPreview(S_trace, Tail(history), variables) = Preview(<<"2", "0">>, "normal")

\* the step puts one new entry in front of the history, which is otherwise kept
\* up to the cap
OneEntryAppended ==
  /\ Len(history') = Min(Len(history) + 1, HistoryCap)
  /\ history'[1].id \notin Ids(history)
  /\ SubSeq(history', 2, Len(history')) = SubSeq(history, 1, Len(history') - 1)

\* C12: Enter on non-blank input always commits, whichever branch it takes: it
\* appends exactly one new entry, empties the input box and sets the recall
\* cursor to none; a text that fails to evaluate is recorded with result ERR.
\* Enter is skipped for blank input only.
C12_CommitAlwaysRecords ==
  [][/\ lastOp' = "enterBlank" => trim(input) = <<>>
     /\ CommitStep =>
          /\ trim(input) # <<>>
          /\ OneEntryAppended
          /\ input' = <<>>
          /\ historyIndex' = NoIndex
          /\ input = S_aPlus1 /\ "a" \notin DOMAIN variables =>
               history'[1] = Entry(maxId(history) + 1, input, ERR, now)]_vars

\* a+1 was committed while a was unbound, after a recall: recorded as ERR, the
\* box empty, the cursor none
C12_FailureRecorded ==
  /\ lastOp = "commit"
  /\ history[1].expression = S_aPlus1
  /\ history[1].result = ERR
  /\ Len(history) >= 2
  /\ input = <<>>
  /\ historyIndex = NoIndex

\* C13: with n >= 1 entries and the cursor at none, k <= n ArrowUp presses
\* followed by ArrowDown presses leave the cursor on an entry until the k-th
\* ArrowDown, which sets the cursor to none and empties the input box.
C13_RecallRoundTrip ==
  (recallRun.ups >= 1 /\ recallRun.ups <= Len(history)) =>
     /\ recallRun.downs < recallRun.ups => historyIndex # NoIndex
     /\ recallRun.downs = recallRun.ups => historyIndex = NoIndex /\ input = <<>>

\* three entries, ArrowUp three times, ArrowDown three times
C13_ThreeUpThreeDown ==
  /\ Len(history) = 3
  /\ recallRun = [ups |-> 3, downs |-> 3]
  /\ historyIndex = NoIndex
  /\ input = <<>>

\* C14: ArrowUp with the cursor already on the oldest entry changes neither the
\* cursor, nor the input box text, nor the history, nor the variables, whatever
\* put the text in the box; ArrowDown with the cursor on the newest entry sets
\* the cursor to none and empties the input box.
C14_RecallAtTheEnds ==
  [][/\ (lastOp' = "recallPrevious" /\ Len(history) >= 1
            /\ historyIndex = Len(history) - 1) =>
          UNCHANGED <<historyIndex, input, history, variables>>
     /\ (lastOp' = "recallNext" /\ historyIndex = 0) =>
          historyIndex' = NoIndex /\ input' = <<>>]_vars

RecallStep == lastOp' \in {"recallPrevious", "recallNext"}

\* C15: the first segment of the expression a commit stores is the text that was
\* committed, and a recall that lands on an entry committed in this session puts
\* exactly that text in the input box, whatever the text holds.
C15_RecallGivesCommittedText ==
  [][/\ CommitStep => originalExpression(history'[1].expression) = input
     /\ (RecallStep /\ historyIndex' # NoIndex /\ historyIndex' < Len(history)
           /\ history[historyIndex' + 1].id \in DOMAIN rawText) =>
          input' = rawText[history[historyIndex' + 1].id]]_vars

\* C16: after any sequence of zoom-in, zoom-out, wheel, reset, drag and
\* expression-change events the zoom level is at least 0.1 and at most 10.
C16_ZoomWithinLimits == ZoomMin <= zoomLevel /\ zoomLevel <= ZoomMax

\* the zoom-in button was pressed and the zoom level stands at its upper limit
C16_ZoomInAtLimit ==
  /\ lastOp = "zoomIn"
  /\ zoomLevel = ZoomMax

\* C17: the reset button leaves pan at {0, 0} and zoom at 1, and so does every
\* event that changes the input text, which is the expression of the panel: an
\* edit, a commit that empties the box, a recall, a click on a history row.
C17_ExpressionChangeResets ==
  [][(lastOp' = "resetZoom" \/ input' # input)
       => (zoomLevel' = ZoomDefault /\ panOffset' = Origin)]_vars

\* a recall put another graphed text in the box while pan or zoom was away from
\* its default, and they are back at it
C17_RecallReset ==
  /\ lastOp = "recallPrevious"
  /\ viewReset
  /\ panelShown(input)
  /\ zoomLevel = ZoomDefault
  /\ panOffset = Origin

\* the history, the variables and their two persisted blobs are left as they are
StoresUnchanged == UNCHANGED <<history, variables, lsHistory, lsVariables>>

\* C18: clearHistory empties the history and leaves the variables and their
\* blob as they are; clearVariables empties the variable map and leaves the
\* history and its blob as they are; a second clearHistory right after a
\* clearHistory, and a second clearVariables right after a clearVariables,
\* changes neither store, nor the input text, nor the recall cursor.
C18_ClearsAreIdempotent ==
  [][/\ lastOp' = "clearHistory" =>
          history' = <<>> /\ UNCHANGED <<variables, lsVariables>>
     /\ lastOp' = "clearVariables" =>
          variables' = EmptyVars /\ UNCHANGED <<history, lsHistory>>
     /\ (lastOp' = lastOp /\ lastOp \in {"clearHistory", "clearVariables"}) =>
          StoresUnchanged /\ UNCHANGED <<input, historyIndex>>]_vars

\* a history that held entries was cleared and the variable a is still bound
C18_HistoryClearedVariablesKept ==
  /\ lastOp = "clearHistory"
  /\ assignedIds.ever # {}
  /\ history = <<>>
  /\ "a" \in DOMAIN variables
  /\ lsVariables # <<>>

\* the stores a restart would read from the two keys: the empty store for an
\* absent blob
PersistedHistory == IF lsHistory = <<>> THEN <<>> ELSE parse(lsHistory[1])
PersistedVariables == IF lsVariables = <<>> THEN EmptyVars ELSE parse(lsVariables[1])

\* C19: once the page is mounted, after every event handled to its end (the
\* startup load, a commit, an About insertion, a clear, and every event that
\* mutates neither store) the blob under each key spells the store in memory,
\* an absent blob standing for the empty store, and a load of the history blob
\* gives the history in memory.
C19_PersistedEqualsMemory ==
  mounted =>
    /\ PersistedHistory = history
    /\ PersistedVariables = variables
    /\ loadHistory(lsHistory, <<>>) = history

\* the assignment a=3 was committed on top of a loaded history of two entries
\* and both blobs hold it
C19_CommitPersisted ==
  /\ lastOp = "commit"
  /\ Len(history) = 3
  /\ history[1].expression = S_a3
  /\ lsHistory # <<>>
  /\ parse(lsHistory[1])[1].id = 3
  /\ lsVariables # <<>>
  /\ parse(lsVariables[1])["a"] = Num(3)

\* the place of the i-th entry of a stored list among its entries without id
idlessRank(stored, i) == Cardinality({k \in 1..i : stored[k].id = NoId})

\* C20: the load of a persisted history gives its entries without id the ids
\* 1, 2, 3, ... in stored order, counting the entries without id only, and
\* leaves the id of every entry that has one.
C20_LoadNumbersFromOne ==
  [][(lastOp' = "mount" /\ lsHistory # <<>>) =>
       /\ Len(history') = Len(parse(lsHistory[1]))
       /\ \A i \in 1..Len(history') :
            history'[i].id = IF parse(lsHistory[1])[i].id # NoId
                             THEN parse(lsHistory[1])[i].id
                             ELSE idlessRank(parse(lsHistory[1]), i)]_vars

\* C21: whenever the history holds entries, the entry that ans resolves to, the
\* one with the largest id, is the entry created last: the head of the list,
\* to which every new entry is added, and no entry has a later timestamp.
C21_AnsIsNewestEntry ==
  (mounted /\ history # <<>>) =>
    /\ mostRecentEntry(history) = history[1]
    /\ \A i \in 1..Len(history) : history[i].timestamp <= mostRecentEntry(history).timestamp

\* the position after the run of word characters that starts at i
RECURSIVE wordEnd(_, _)
wordEnd(s, i) == IF i <= Len(s) /\ IsWordChar(s[i]) THEN wordEnd(s, i + 1) ELSE i

\* the rows of h whose id, written after ans, is the word w
rowsOf(w, h) == {k \in 1..Len(h) : AnsWord \o IntToStr(h[k].id) = w}

\* w is an answer token by id: ans followed by digits only
IsAnsId(w) ==
  /\ Len(w) > Len(AnsWord)
  /\ SubSeq(w, 1, Len(AnsWord)) = AnsWord
  /\ AllDigits(SubSeq(w, Len(AnsWord) + 1, Len(w)))

\* what a word of the text stands for: ans for the result of the entry with
\* the largest id, ansN for the result of the row with id N, any other word
\* for itself
tokenValue(w, h) ==
  IF w = AnsWord /\ h # <<>> THEN mostRecentEntry(h).result
  ELSE IF rowsOf(w, h) # {} THEN h[MinOfSet(rowsOf(w, h))].result
  ELSE w

\* the text s from position i on, word by word, each word replaced by what it
\* stands for
RECURSIVE resolvedByToken(_, _, _)
resolvedByToken(s, h, i) ==
  IF i > Len(s) THEN <<>>
  ELSE IF IsWordChar(s[i])
  THEN tokenValue(SubSeq(s, i, wordEnd(s, i) - 1), h) \o resolvedByToken(s, h, wordEnd(s, i))
  ELSE <<s[i]>> \o resolvedByToken(s, h, i + 1)

\* a word of s is an answer token by id that no row of h carries
Unresolved(s, h) ==
  \E i \in 1..Len(s) :
    /\ IsWordChar(s[i])
    /\ (IF i = 1 THEN TRUE ELSE ~IsWordChar(s[i - 1]))
    /\ IsAnsId(SubSeq(s, i, wordEnd(s, i) - 1))
    /\ rowsOf(SubSeq(s, i, wordEnd(s, i) - 1), h) = {}

\* the resolver rewrites the text of the box word by word: ansN becomes the
\* result of the row with id N, and a word that only begins with ansN, or an
\* ansN that no row carries, stays as it is
TokensResolved == resolveAnswers(input, history) = resolvedByToken(input, history, 1)

\* C22: ansN is replaced by the result of the entry with id exactly N and by
\* nothing else, an ansN that no entry of the history carries stays in the
\* text, and every commit of a text that holds such a token records ERR.
C22_UnresolvedRecordsErr ==
  [][/\ TokensResolved
     /\ (CommitStep /\ Unresolved(input, history)) => history'[1].result = ERR]_vars

\* C22, amended: as above, but it is the commit of a text that is no graph
\* equation that records ERR; the commit of a graph equation resolves no
\* token and records GRAPH.
C22_UnresolvedEvaluatedRecordsErr ==
  [][/\ TokensResolved
     /\ (CommitStep /\ Unresolved(input, history)) =>
          history'[1].result =
            IF inputKind(input, history, variables) = "Graph" THEN GRAPH ELSE ERR]_vars

\* ans1+1 was committed after the cap had dropped the entry with id 1, and
\* is recorded as ERR
C22_DroppedIdRecordsErr ==
  /\ lastOp = "commit"
  /\ history[1].expression = S_ans1
  /\ history[1].result = ERR
  /\ Len(history) = HistoryCap
  /\ maxId(history) = HistoryCap + 2

\* C23: in every drawn path each finite column of the scan has its point, the
\* columns after a skipped one included, and no segment joins two finite
\* columns across a column that is non-finite or failed to evaluate: a line
\* is drawn only from the column just before
ScannedAll ==
  \A px \in 0..(Len(samples) - 1) :
    IsFiniteNumber(samples[px + 1]) => \E i \in 1..Len(path) : path[i].px = px
C23_SkippedColumnIsGap ==
  /\ ScannedAll
  /\ \A i \in 2..Len(path) : path[i].op = "lineTo" => path[i].px = path[i - 1].px + 1

\* C24 as stated: the drag state is the machine Idle -> Dragging -> Idle:
\* mouse-down ends in Dragging, mouse-up and mouse-leave end in Idle, and no
\* other step changes the drag state; a pointer move changes the pan only when
\* it starts in Dragging and the hover point only when it starts in Idle;
\* mouse-leave ends with no hover point
DragEnds ==
  /\ lastOp' = "mouseDown" => isDragging'
  /\ lastOp' \in {"mouseUp", "mouseLeave"} => ~isDragging'
DragKept == lastOp' \notin {"mouseDown", "mouseUp", "mouseLeave"} => isDragging' = isDragging
MoveStep ==
  lastOp' = "mouseMove" =>
    /\ panOffset' # panOffset => isDragging
    /\ hoverPoint' # hoverPoint => ~isDragging
LeaveStep == lastOp' = "mouseLeave" => hoverPoint' = NoHover
C24_DragStateMachine == [][DragEnds /\ DragKept /\ MoveStep /\ LeaveStep]_vars

\* C24 amended: the same machine, where the one other step that changes the
\* drag state is a change of the expression to one that is not graphed: the
\* canvas is unmounted and its drag state is Idle from then on
C24_DragStateMachineOfCanvas ==
  [][DragEnds /\ (DragKept \/ (~panelShown(input') /\ ~isDragging')) /\ MoveStep /\ LeaveStep]_vars
\* a drag has moved the view with a hover point left from before the drag
C24_DraggedWithHover ==
  lastOp = "mouseMove" /\ isDragging /\ panOffset # Origin /\ hoverPoint # NoHover

\* expression.split(' -> ') and its last member
RECURSIVE lastSegment(_)
lastSegment(expression) ==
  IF indexOf(expression, Separator) = 0 THEN expression
  ELSE lastSegment(SubSeq(expression, indexOf(expression, Separator) + Len(Separator),
                          Len(expression)))

\* C25: after a Plain commit that stored a number and a trace, the last segment of
\* the stored expression evaluates, by the same evaluator, to the number that is
\* the stored result
PlainTraced ==
  /\ CommitStep
  /\ inputKind(input, history, variables) = "Plain"
  /\ history'[1].result # ERR
  /\ history'[1].expression # input
C25_TraceEndsAtResult ==
  [][PlainTraced =>
       resultString(evaluate(lastSegment(history'[1].expression))) = history'[1].result]_vars

\* the input followed by the trace, when there is one
withTrace(inp, trace) == IF trace # <<>> THEN inp \o Separator \o trace ELSE inp
Succeeded(kind) ==
  /\ CommitStep
  /\ inputKind(input, history, variables) = kind
  /\ history'[1].result # ERR

\* C26 as stated: a TrigNumeric or Plain commit that stored a number stores as
\* expression the input followed by the trace of the input when that trace is
\* not empty, and the input alone when it is
C26_DisplayIsInputWithTrace ==
  [][Succeeded("TrigNumeric") \/ Succeeded("Plain") =>
       history'[1].expression
         = withTrace(input, getIntermediateExpression(input, history, variables))]_vars

\* C26 amended: that holds of a Plain commit; a TrigNumeric commit stores the
\* input alone, whatever the tracer yields for it
C26_PlainDisplayIsInputWithTrace ==
  [][/\ Succeeded("Plain") =>
          history'[1].expression
            = withTrace(input, getIntermediateExpression(input, history, variables))
     /\ Succeeded("TrigNumeric") => history'[1].expression = input]_vars
\* sin(0), for which the tracer yields sin0, was committed as sin(0) after
\* (2+3)*4 was committed with its trace
C26_TrigAfterTraced ==
  /\ lastOp = "commit"
  /\ Len(history) = 2
  /\ history[1].expression = S_sin0
  /\ history[1].result = <<"0">>
  /\ getIntermediateExpression(S_sin0, Tail(history), variables) = <<"s","i","n","0">>
  /\ history[2].expression = S_trace \o Separator \o <<"5","*","4">>

\* C27: a failure of localStorage is contained: after a load of a text that
\* does not parse the page is mounted, and after a commit whose write throws
\* the page is mounted and the history in memory holds the new entry
C27_PersistenceFailureContained ==
  [][/\ lastOp' = "loadFailed" => mounted'
     /\ lastOp' = "saveFailed" =>
          /\ mounted'
          /\ history' = pushEntry(commitEntry(input, history, variables, now).entry,
                                  history)]_vars

\* C28 as stated: every entry of the history is, with the same id, expression,
\* result and timestamp, in the history after every step that is no clear of
\* the history
ClearStep == lastOp' \in {"clearHistory", "clearAll"}
C28_EntriesKeptUntilClear ==
  [][\A i \in DOMAIN history : ClearStep \/ history[i] \in Entries(history')]_vars

\* C28 amended: the same, but for the oldest entries of a commit into a full
\* history: the commit keeps the new entry and the HistoryCap - 1 newest
C28_EntriesKeptUntilClearOrCap ==
  [][\A i \in DOMAIN history :
       \/ ClearStep
       \/ history[i] \in Entries(history')
       \/ CommitStep /\ i >= HistoryCap]_vars
\* a commit into a full history dropped an entry that no clear removed
C28_OldestDropped ==
  /\ lastOp = "commit"
  /\ Len(history) = HistoryCap
  /\ \E id \in assignedIds.sinceClear : id \notin Ids(history)

Abs(n) == IF n < 0 THEN 0 - n ELSE n

\* a drag move by (dx, dy) = dragStart' - dragStart: the pan changes by
\* -dx * 2 * baseRange / width and +dy * 2 * baseRange / height, baseRange
\* being 10 / zoomLevel
MoveFollowsPointer ==
  /\ panOffset'.x = panOffset.x
       - RoundDiv((dragStart'.x - dragStart.x) * (2 * RoundDiv(10 * Scale * Scale, zoomLevel)),
                  CanvasWidth)
  /\ panOffset'.y = panOffset.y
       + RoundDiv((dragStart'.y - dragStart.y) * (2 * RoundDiv(10 * Scale * Scale, zoomLevel)),
                  CanvasHeight)
\* the pan of a drag at constant zoom is the pan the drag found, changed as one
\* move by the net displacement of the pointer would change it, within the
\* rounding of one unit of the last digit for each move made
PanIsOfNetDisplacement ==
  /\ Abs(panOffset.x - (dragFrom.pan.x + graphDx(dragStart.x - dragFrom.at.x, zoomLevel)))
       <= dragFrom.moves
  /\ Abs(panOffset.y - (dragFrom.pan.y + graphDy(dragStart.y - dragFrom.at.y, zoomLevel)))
       <= dragFrom.moves

opens(s) == Cardinality({i \in 1..Len(s) : s[i] = "("})
closes(s) == Cardinality({i \in 1..Len(s) : s[i] = ")"})

\* steps is a trace of the text r: every step has one "(" and one ")" less
\* than the text before it, so there are at most as many steps as r has "(",
\* and the last text has no pair of parentheses or no group that evaluates
TraceOf(r, steps) ==
  /\ Len(steps) <= opens(r)
  /\ \A k \in 1..Len(steps) :
       /\ opens(steps[k]) = opens(IF k = 1 THEN r ELSE steps[k - 1]) - 1
       /\ closes(steps[k]) = closes(IF k = 1 THEN r ELSE steps[k - 1]) - 1
  /\ LET last == IF steps = <<>> THEN r ELSE steps[Len(steps)]
     IN  IF includes(last, <<"(">>) /\ includes(last, <<")">>)
         THEN ReplaceableGroups(last) = {}
         ELSE TRUE

\* C30: the tracer ends on the text of the input box, resolved, whatever it
\* is: each step removes one innermost group, the steps are at most as many
\* as the opening parentheses of the resolved text, and the tracer stops only
\* when no parentheses remain or no group of a scan evaluates
C30_TracerTerminates ==
  TraceOf(replaceVariablesAndAnswers(input, history, variables),
          traceSteps(replaceVariablesAndAnswers(input, history, variables)))
\* ((1+2)*3)+(a) was committed with a bound to 7: a trace of three steps for
\* three opening parentheses
C30_ThreeGroupsTraced ==
  /\ lastOp = "commit"
  /\ history[1].expression =
       S_nested \o Separator \o <<"(","3","*","3",")","+","(","7",")">>
                \o Separator \o <<"9","+","(","7",")">>
                \o Separator \o <<"9","+","7">>
  /\ history[1].result = <<"1","6">>

\* the innermost groups of s that a scan skips: those that do not evaluate to
\* a finite number
SkippedGroups(s) ==
  {i \in 1..Len(s) : GroupEnd(s, i) # 0 /\ ~groupEvaluates(s, i, GroupEnd(s, i))}

\* next is cur with its first group that evaluates, at m, replaced by the text
\* of its value, and every group a scan skips is in next as it is in cur
ScanStep(cur, next, m) ==
  /\ \A i \in SkippedGroups(cur) : i > m \/ GroupEnd(cur, i) < m
  /\ next = SubSeq(cur, 1, m - 1)
              \o NumToString(evaluate(SubSeq(cur, m + 1, GroupEnd(cur, m) - 1)))
              \o SubSeq(cur, GroupEnd(cur, m) + 1, Len(cur))
  /\ \A i \in SkippedGroups(cur) :
       LET at == IF i < m THEN i ELSE i + Len(next) - Len(cur)
       IN  /\ at >= 1
           /\ at + (GroupEnd(cur, i) - i) <= Len(next)
           /\ SubSeq(next, at, at + (GroupEnd(cur, i) - i)) = SubSeq(cur, i, GroupEnd(cur, i))

SkipsIn(r, steps) ==
  \A k \in 1..Len(steps) :
    LET cur == IF k = 1 THEN r ELSE steps[k - 1]
    IN  /\ ReplaceableGroups(cur) # {}
        /\ ScanStep(cur, steps[k], MinOfSet(ReplaceableGroups(cur)))

\* C31: in every scan of the tracer the groups that do not evaluate to a
\* finite number are skipped: the group replaced is the first one that
\* evaluates, and every skipped group is, unchanged, in the step recorded;
\* stated of the trace of the resolved text of the input box
C31_UnevaluableGroupsSkipped ==
  SkipsIn(replaceVariablesAndAnswers(input, history, variables),
          traceSteps(replaceVariablesAndAnswers(input, history, variables)))
\* 1/(1/0)+(2) was committed: the scan skipped (1/0), which is Infinity, and
\* replaced (2)
C31_SkippedThenReplaced ==
  /\ lastOp = "commit"
  /\ history[1].expression =
       S_overInf \o Separator \o <<"1","/","(","1","/","0",")","+","2">>
  /\ history[1].result = <<"2">>

\* the zoom after the zoom-in button and after the zoom-out button
ButtonStep ==
  /\ lastOp' = "zoomIn" => zoomLevel' = Min(ZoomMax, RoundDiv(zoomLevel * 12, 10))
  /\ lastOp' = "zoomOut" => zoomLevel' = Max(ZoomMin, zoomedOut(zoomLevel))
\* from the zoom of this state, zoom-in then zoom-out, and zoom-out then
\* zoom-in, give this zoom again when neither is clamped, within the rounding
\* of the last digit
RoundTrip ==
  /\ zoomedIn(zoomLevel) <= ZoomMax =>
       Abs(Max(ZoomMin, zoomedOut(Min(ZoomMax, zoomedIn(zoomLevel)))) - zoomLevel) <= 1
  /\ zoomedOut(zoomLevel) >= ZoomMin =>
       Abs(Min(ZoomMax, zoomedIn(Max(ZoomMin, zoomedOut(zoomLevel)))) - zoomLevel) <= 1

C33_CursorIsValid ==
  mounted => (historyIndex = NoIndex \/ (0 <= historyIndex /\ historyIndex < Len(history)))

\* C34: while the recall cursor is on an entry of the history, the input box
\* holds the first segment of the expression of that entry
C34_BoxShowsEntryUnderCursor ==
  (mounted /\ 0 <= historyIndex /\ historyIndex < Len(history)) =>
    input = originalExpression(history[historyIndex + 1].expression)

\* C35: the history is in strictly descending order of id: the newest entry,
\* with the largest id, is at index 0
C35_IdsDescend ==
  mounted => \A i \in 1..(Len(history) - 1) : history[i].id > history[i + 1].id

\* C36: the graph panel is shown for the input text exactly when the Enter
\* handler classifies that text as Graph
C36_PanelShownForGraphInputs ==
  mounted => (panelShown(input) <=> (trim(input) # <<>> /\ inputKind(input, history, variables) = "Graph"))

HoverSteps == 4

S_yIsA == <<"y","=","a">>

\* graphed texts: a constant, a function of x and one that reads a variable
HoverInputs == {S_yIs1, S_sinx, S_yIsA}

InitHover ==
  /\ Constructed(MaxSteps - HoverSteps + 1)
  /\ lsHistory = <<>>
  /\ lsVariables \in StoredVariables

\* pointer moves over a graph whose text, variables and zoom change
NextHover ==
  \/ Mount
  \/ \E s \in HoverInputs : TextChanged(s)
  \/ clearVariables
  \/ handleZoomIn
  \/ \E p \in Pointers, finite \in BOOLEAN : handleMouseMove(p, finite)
  \/ handleMouseLeave

SpecHover == InitHover /\ [][NextHover]_vars

\* C37: a hover point that is set lies on the graphed function: its y is the
\* value of the current expression at its x under the current variables
C37_HoverOnGraphedFunction ==
  hoverPoint # NoHover =>
    hoverPoint.y = calculateYFromX(hoverPoint.x, input, variables, TRUE)

\* Enter pressed while the text of the box is empty or only whitespace
BlankEnterStep == trim(input) = <<>> /\ lastOp' \in {"commit", "enterBlank", "saveFailed"}

\* C38: Enter on an empty or whitespace-only text does nothing: no entry is
\* appended, and the history, the variables, the text of the box and the
\* recall cursor are as they were
C38_BlankEnterIsNoOp ==
  [][BlankEnterStep =>
       /\ lastOp' = "enterBlank"
       /\ UNCHANGED <<input, history, variables, historyIndex>>]_vars

\* Enter was pressed on a text of one space, with an entry in the history
C38_BlankEntered ==
  /\ lastOp = "enterBlank"
  /\ input = S_blank
  /\ Len(history) > 0

====
